---- MODULE Spec2Model ----
(***************************************************************************)
(* Verification model of the configuration-driven proposal pipeline:       *)
(* template selection (TemplateSelectionService), configuration store      *)
(* (SlideConfigService), per-slide generation and scoring                  *)
(* (SlideGeneratorService), and the orchestration / wiring around them     *)
(* (ProposalOrchestrator, ProposalController, server.ts).                  *)
(*                                                                         *)
(* Conventions.                                                            *)
(*  - A JavaScript Map is a sequence of values in insertion order.         *)
(*  - An absent (undefined) or empty string is "": both are falsy in JS.   *)
(*  - Text is a sequence of one-character strings; a non-ASCII character  *)
(*    and the backtick are written as their code points ("U+2022" is the   *)
(*    bullet, "U+0060" the backtick).                                      *)
(*  - A number or list the configuration leaves out is 0 or <<>>: the code *)
(*    treats both alike (`x || default`, `x && ...`, loops over x).        *)
(*  - Template scores are kept doubled (3 -> 6, 1 -> 2, 0.5 -> 1, -1 ->    *)
(*    -2) and confidence scores are kept in halves until Math.round, so    *)
(*    that fractional values stay integers.                                *)
(***************************************************************************)
EXTENDS Integers, Sequences, FiniteSets, TLC

VARIABLES
    availableTemplates,   \* TemplateSelectionService.availableTemplates (Map, insertion order)
    defaultTemplateId,    \* TemplateSelectionService.defaultTemplateId
    selCriteria,          \* criteria of the last selectTemplate call
    selResult,            \* what that call returned or threw
    legacyExists,         \* file system: config/slides.yaml exists
    currentTemplateId,    \* ProposalOrchestrator.currentTemplateId ("" is null)
    generator,            \* ProposalOrchestrator.generator
    pptxService,          \* the PPTXService server.ts hands to the controller
    lastRequest,          \* the request the controller handled last
    lastOutcome,          \* what that request was generated and assembled from
    configFile,           \* file system: the configuration file at configPath
    config,               \* SlideConfigService.config
    isWatching,           \* SlideConfigService.isWatching
    everLoaded,           \* history: some load of the file has succeeded
    slidesAnswer,         \* what the last getEnabledSlides call answered
    genPc,                \* generateAllSlides: "idle", "running" or "done"
    genSlides,            \* generateAllSlides: const slides
    genIndex,             \* generateAllSlides: i
    genResults,           \* generateAllSlides: results
    genProgress,          \* the calls made to progressCallback, in order
    genOutcomes,          \* history: what the provider did for each slide so far
    genCalls,             \* history: the provider calls issued, in order
    proposal,             \* generateProposal: the proposal it returns
    pptxCall,             \* the call made to PPTXService last
    pptxReturn,           \* what that call returned
    normCall,             \* the content handed to processContent last, with its slide
    normReturn,           \* what that call returned
    engineCall,           \* the call made to PromptTemplateEngine last
    engineReturn,         \* what that call returned or that it threw
    requests,             \* the generateProposal requests in flight on the shared orchestrator
    providerLog,          \* history: the provider calls of all requests, in the order issued
    sseRequest,           \* generateProposalWithSSE: the request being served
    ssePc,                \* generateProposalWithSSE: where the handler stands
    sseCount,             \* generateProposalWithSSE: files extracted, then slides announced
    sseStream,            \* the events written to the response, in order
    sseEnded,             \* res.end() has been called
    wizardState,          \* WizardProvider: state
    sessionStorage        \* the item presidio_wizard_state of the session storage

selVars == <<availableTemplates, defaultTemplateId, selCriteria, selResult>>
orchVars == <<legacyExists, currentTemplateId, generator, pptxService, lastRequest, lastOutcome>>

cfgVars == <<configFile, config, isWatching, everLoaded, slidesAnswer>>

genVars == <<genPc, genSlides, genIndex, genResults, genProgress, genOutcomes,
            genCalls, proposal>>

pptxVars == <<pptxCall, pptxReturn>>

normVars == <<normCall, normReturn>>

engineVars == <<engineCall, engineReturn>>

concVars == <<requests, providerLog>>

sseVars == <<sseRequest, ssePc, sseCount, sseStream, sseEnded>>

wizVars == <<wizardState, sessionStorage>>

vars == <<selVars, orchVars, cfgVars, genVars, pptxVars, normVars, engineVars, concVars, sseVars, wizVars>>

\* The variables each specification leaves idle.
selOthers == <<orchVars, cfgVars, genVars, pptxVars, normVars, engineVars, concVars, sseVars, wizVars>>
orchOthers == <<selCriteria, selResult, cfgVars, genVars, pptxVars, normVars, engineVars, concVars, sseVars, wizVars>>
cfgOthers == <<selVars, orchVars, genVars, pptxVars, normVars, engineVars, concVars, sseVars, wizVars>>
genOthers == <<selVars, orchVars, configFile, isWatching, slidesAnswer, pptxVars, normVars, engineVars, concVars, sseVars, wizVars>>
pptxOthers == <<selVars, orchVars, cfgVars, genVars, normVars, engineVars, concVars, sseVars, wizVars>>
normOthers == <<selVars, orchVars, cfgVars, genVars, pptxVars, engineVars, concVars, sseVars, wizVars>>
engineOthers == <<selVars, orchVars, cfgVars, genVars, pptxVars, normVars, concVars, sseVars, wizVars>>
concOthers == <<selVars, orchVars, cfgVars, genVars, pptxVars, normVars, engineVars, sseVars, wizVars>>
sseOthers == <<selVars, orchVars, cfgVars, genVars, pptxVars, normVars, engineVars, concVars, wizVars>>
wizOthers == <<selVars, orchVars, cfgVars, genVars, pptxVars, normVars, engineVars, concVars, sseVars>>

NoCall == [called |-> FALSE]
NoPath == <<>>
NullGenerator == [null |-> TRUE]
NullConfig == [null |-> TRUE]
Missing == [missing |-> TRUE]

\* Values of the variables a specification does not use.
IdleRegistry ==
    /\ availableTemplates = <<>>
    /\ defaultTemplateId = "default"

IdleSel ==
    /\ selCriteria = NoCall
    /\ selResult = NoCall

IdleCfg ==
    /\ configFile = [exists |-> FALSE]
    /\ config = NullConfig
    /\ isWatching = FALSE
    /\ everLoaded = FALSE
    /\ slidesAnswer = NoCall

IdleNorm ==
    /\ normCall = NoCall
    /\ normReturn = NoCall

IdleEngine ==
    /\ engineCall = NoCall
    /\ engineReturn = NoCall

IdleConc ==
    /\ requests = <<>>
    /\ providerLog = <<>>

IdleSse ==
    /\ sseRequest = NoCall
    /\ ssePc = "idle"
    /\ sseCount = 0
    /\ sseStream = <<>>
    /\ sseEnded = FALSE

IdleWiz ==
    /\ wizardState = NoCall
    /\ sessionStorage = NoCall

IdlePptx ==
    /\ pptxCall = NoCall
    /\ pptxReturn = NoCall

IdleGen ==
    /\ genPc = "idle"
    /\ genSlides = <<>>
    /\ genIndex = 0
    /\ genResults = <<>>
    /\ genProgress = <<>>
    /\ genOutcomes = <<>>
    /\ genCalls = <<>>
    /\ proposal = NoCall

IdleOrch ==
    /\ legacyExists = FALSE
    /\ currentTemplateId = ""
    /\ generator = NullGenerator
    /\ pptxService = NullGenerator
    /\ lastRequest = NoCall
    /\ lastOutcome = NoCall

(***************************************************************************)
(* Bounds                                                                  *)
(***************************************************************************)
MaxDirs == 2
MaxSlides == 2
MaxTerms == 2
MaxKeywords == 2

(***************************************************************************)
(* TemplateSelectionService                                                *)
(***************************************************************************)
DirNames == <<"general", "healthcare", "finance">>

LegacyConfigPath == <<"config", "slides.yaml">>
LegacyTemplatePath == <<"templates", "Solution Summary Template.pptx">>

\* The `template` section of a config.yaml, as far as selection reads it.
TemplateSections ==
    [id : {"default", "healthcare"},
     industries : SUBSET {"all", "Healthcare"},
     project_types : {{"all"}, {"Cloud Migration"}}]

\* A directory either yields a usable template section or is skipped.
NoConfig == [skipped |-> TRUE]
DirEntries == TemplateSections \cup {NoConfig}

RECURSIVE SeqsUpTo(_, _)
SeqsUpTo(S, n) ==
    IF n = 0 THEN {<<>>}
    ELSE LET shorter == SeqsUpTo(S, n - 1)
         IN  shorter \cup {Append(s, x) : s \in {t \in shorter : Len(t) = n - 1}, x \in S}

MapHas(map, id) == \E i \in 1..Len(map) : map[i].id = id
MapGet(map, id) == map[CHOOSE i \in 1..Len(map) : map[i].id = id]
\* Map.set: an existing key keeps its position and takes the new value.
MapSet(map, t) ==
    IF MapHas(map, t.id)
    THEN [i \in 1..Len(map) |-> IF map[i].id = t.id THEN t ELSE map[i]]
    ELSE Append(map, t)

TemplateInfoOf(section, dirName) ==
    [id |-> section.id,
     industries |-> section.industries,
     projectTypes |-> section.project_types,
     configPath |-> <<"config", "templates", dirName, "config.yaml">>,
     templatePath |-> <<"config", "templates", dirName, "template.pptx">>]

LegacyTemplateInfo ==
    [id |-> "legacy",
     industries |-> {"all"},
     projectTypes |-> {"all"},
     configPath |-> LegacyConfigPath,
     templatePath |-> LegacyTemplatePath]

\* The for-loop of loadAvailableTemplates over the template directories.
RECURSIVE ScanDirs(_, _, _)
ScanDirs(dirs, i, map) ==
    IF i > Len(dirs) THEN map
    ELSE IF dirs[i] = NoConfig THEN ScanDirs(dirs, i + 1, map)
    ELSE ScanDirs(dirs, i + 1, MapSet(map, TemplateInfoOf(dirs[i], DirNames[i])))

\* loadLegacyConfiguration: registers 'legacy' and makes it the default.
loadLegacyConfiguration(map, defId, legacyFile) ==
    IF legacyFile
    THEN [templates |-> MapSet(map, LegacyTemplateInfo), defaultId |-> "legacy"]
    ELSE [templates |-> map, defaultId |-> defId]

\* loadAvailableTemplates: the registry and default id the constructor leaves.
loadAvailableTemplates(dirExists, dirs, legacyFile) ==
    IF ~dirExists THEN loadLegacyConfiguration(<<>>, "default", legacyFile)
    ELSE LET scanned == ScanDirs(dirs, 1, <<>>)
         IN  IF Len(scanned) = 0
             THEN loadLegacyConfiguration(scanned, "default", legacyFile)
             ELSE [templates |-> scanned, defaultId |-> "default"]

\* One iteration of the scoring loop (scores doubled).
MatchScore(listed, wanted) ==
    IF wanted = "" THEN 0
    ELSE IF "all" \in listed THEN 2
    ELSE IF wanted \in listed THEN 6
    ELSE 0

\* Mutant: the default template always gets the small boost.
TemplateScore_DefaultAlwaysBoosted(t, criteria, defId) ==
    LET score == MatchScore(t.industries, criteria.industry)
                 + MatchScore(t.projectTypes, criteria.projectType)
    IN  IF t.id = defId THEN 1 ELSE score

TemplateScore(t, criteria, defId) ==
    LET score == MatchScore(t.industries, criteria.industry)
                 + MatchScore(t.projectTypes, criteria.projectType)
    IN  IF t.id = defId /\ score = 0 THEN 1 ELSE score

Selected(t, score) == [ok |-> TRUE, template |-> t, score |-> score]
NoTemplatesAvailable == [ok |-> FALSE, error |-> "No templates available"]
NoBest == [id |-> ""]

\* The score-based loop: the first template with the strictly highest score.
RECURSIVE ScoreLoop(_, _, _, _, _, _)
ScoreLoop(map, criteria, defId, i, bestTemplate, bestScore) ==
    IF i > Len(map) THEN [template |-> bestTemplate, score |-> bestScore]
    ELSE LET score == TemplateScore(map[i], criteria, defId)
         IN  IF score > bestScore
             THEN ScoreLoop(map, criteria, defId, i + 1, map[i], score)
             ELSE ScoreLoop(map, criteria, defId, i + 1, bestTemplate, bestScore)

\* Mutant: an explicit id that is not registered is treated as fatal.
selectTemplate_UnknownIdThrows(map, defId, criteria) ==
    IF criteria.templateId # "" /\ ~MapHas(map, criteria.templateId)
    THEN NoTemplatesAvailable
    ELSE IF criteria.templateId # ""
    THEN Selected(MapGet(map, criteria.templateId), -2)
    ELSE LET best == ScoreLoop(map, criteria, defId, 1, NoBest, -2)
         IN  IF best.template # NoBest THEN Selected(best.template, best.score)
             ELSE NoTemplatesAvailable

\* Mutant: the direct selection by id is skipped.
selectTemplate_IgnoresExplicitId(map, defId, criteria) ==
    LET best == ScoreLoop(map, criteria, defId, 1, NoBest, -2)
    IN  IF best.template # NoBest THEN Selected(best.template, best.score)
        ELSE NoTemplatesAvailable

selectTemplate(map, defId, criteria) ==
    IF criteria.templateId # "" /\ MapHas(map, criteria.templateId)
    THEN Selected(MapGet(map, criteria.templateId), -2)
    ELSE LET best == ScoreLoop(map, criteria, defId, 1, NoBest, -2)
         IN  IF best.template # NoBest THEN Selected(best.template, best.score)
             ELSE IF MapHas(map, defId) THEN Selected(MapGet(map, defId), best.score)
             ELSE IF Len(map) > 0 THEN Selected(map[1], best.score)
             ELSE NoTemplatesAvailable

(***************************************************************************)
(* Specification SpecSel: a loaded registry answering selectTemplate calls *)
(***************************************************************************)
CriteriaSet ==
    [templateId : {"", "healthcare", "legacy", "unknown"},
     industry : {"", "Healthcare", "Retail"},
     projectType : {"", "Cloud Migration"}]

Registries ==
    {loadAvailableTemplates(dirExists, dirs, legacyFile) :
        dirExists \in BOOLEAN,
        dirs \in SeqsUpTo(DirEntries, MaxDirs),
        legacyFile \in BOOLEAN}

InitSel ==
    /\ \E r \in Registries :
          /\ availableTemplates = r.templates
          /\ defaultTemplateId = r.defaultId
    /\ selCriteria = NoCall
    /\ selResult = NoCall
    /\ IdleOrch
    /\ IdleCfg
    /\ IdleGen
    /\ IdlePptx
    /\ IdleNorm
    /\ IdleEngine
    /\ IdleConc
    /\ IdleSse
    /\ IdleWiz

SelectTemplate ==
    \E criteria \in CriteriaSet :
        /\ selCriteria' = criteria
        /\ selResult' = selectTemplate(availableTemplates, defaultTemplateId, criteria)
        /\ UNCHANGED <<availableTemplates, defaultTemplateId, selOthers>>

NextSel == SelectTemplate

SpecSel == InitSel /\ [][NextSel]_vars

(***************************************************************************)
(* Text: a sequence of one-character strings, with the String and RegExp   *)
(* operations the services apply to it                                     *)
(***************************************************************************)
UpperCaseLetters ==
    <<"A", "B", "C", "D", "E", "F", "G", "H", "I", "J", "K", "L", "M", "N", "O", "P", "Q", "R", "S", "T", "U", "V", "W", "X", "Y", "Z">>
LowerCaseLetters ==
    <<"a", "b", "c", "d", "e", "f", "g", "h", "i", "j", "k", "l", "m", "n", "o", "p", "q", "r", "s", "t", "u", "v", "w", "x", "y", "z">>
DigitChars == {"0", "1", "2", "3", "4", "5", "6", "7", "8", "9"}
\* \s, as far as the texts of the model go
WhitespaceChars == {" ", "\n", "\t", "\r"}
\* \w
WordChars ==
    {UpperCaseLetters[i] : i \in 1..Len(UpperCaseLetters)}
    \cup {LowerCaseLetters[i] : i \in 1..Len(LowerCaseLetters)}
    \cup DigitChars \cup {"_"}

ToLowerChar(c) ==
    IF \E i \in 1..Len(UpperCaseLetters) : UpperCaseLetters[i] = c
    THEN LowerCaseLetters[CHOOSE i \in 1..Len(UpperCaseLetters) : UpperCaseLetters[i] = c]
    ELSE c

\* String.prototype.toLowerCase
toLowerCase(text) == [i \in 1..Len(text) |-> ToLowerChar(text[i])]

\* pat occurs in text at position i
MatchesAt(text, pat, i) ==
    /\ i + Len(pat) - 1 <= Len(text)
    /\ \A k \in 1..Len(pat) : text[i + k - 1] = pat[k]

\* String.prototype.includes
includes(text, pat) == \E i \in 1..(Len(text) + 1) : MatchesAt(text, pat, i)

\* content.toLowerCase().includes(term.toLowerCase())
includesIgnoreCase(content, term) == includes(toLowerCase(content), toLowerCase(term))

\* new RegExp(`\\b${term.toLowerCase()}\\b`, 'i').test(content), for a term
\* without RegExp metacharacters
IsWordCharAt(text, i) == i >= 1 /\ i <= Len(text) /\ text[i] \in WordChars
WordBoundaryAt(text, i) == IsWordCharAt(text, i - 1) # IsWordCharAt(text, i)
testWholeWord(content, term) ==
    LET lowered == toLowerCase(content)
        pat == toLowerCase(term)
    IN  \E i \in 1..(Len(content) + 1) :
            /\ MatchesAt(lowered, pat, i)
            /\ WordBoundaryAt(content, i)
            /\ WordBoundaryAt(content, i + Len(pat))

\* content.split(/\s+/).length: one more than the number of whitespace runs
wordCount(content) ==
    1 + Cardinality({i \in 1..Len(content) :
            /\ content[i] \in WhitespaceChars
            /\ (i = 1 \/ content[i - 1] \notin WhitespaceChars)})

\* content.match(/\d+/)
matchesDigits(content) == \E i \in 1..Len(content) : content[i] \in DigitChars

\* String.prototype.trim
RECURSIVE trimStart(_)
trimStart(text) ==
    IF text # <<>> /\ text[1] \in WhitespaceChars THEN trimStart(Tail(text)) ELSE text
RECURSIVE trimEnd(_)
trimEnd(text) ==
    IF text # <<>> /\ text[Len(text)] \in WhitespaceChars
    THEN trimEnd(SubSeq(text, 1, Len(text) - 1))
    ELSE text
trim(text) == trimEnd(trimStart(text))

\* The text from position i on.
From(text, i) == SubSeq(text, i, Len(text))

\* The line terminators of the regular expressions: `.` matches neither,
\* and with the m flag ^ matches after either.
LineTerminators == {"\n", "\r"}

\* Positions j >= from where the delimiter closes a span opened before
\* `from`, with no line break inside the span.
ClosingPositions(text, delim, from) ==
    {j \in from..Len(text) :
        /\ MatchesAt(text, delim, j)
        /\ \A k \in from..(j - 1) : text[k] \notin LineTerminators}

Min(S) == CHOOSE x \in S : \A y \in S : x <= y

\* text.replace(/D(.*?)D/g, '$1') for a delimiter D: every span from a D to
\* the nearest following D on the same line loses its two delimiters.
RECURSIVE unwrapDelimited(_, _, _)
unwrapDelimited(text, delim, i) ==
    IF i > Len(text) THEN <<>>
    ELSE LET closing == ClosingPositions(text, delim, i + Len(delim))
         IN  IF MatchesAt(text, delim, i) /\ closing # {}
             THEN SubSeq(text, i + Len(delim), Min(closing) - 1)
                  \o unwrapDelimited(text, delim, Min(closing) + Len(delim))
             ELSE <<text[i]>> \o unwrapDelimited(text, delim, i + 1)

\* Length of the run of c starting at position i.
RECURSIVE RunLength(_, _, _)
RunLength(text, chars, i) ==
    IF i <= Len(text) /\ text[i] \in chars THEN 1 + RunLength(text, chars, i + 1) ELSE 0

\* text.replace(/#{1,6}\s/g, ''): one to six # directly before a whitespace
\* character go, together with that character.
RECURSIVE removeHeadingMarks(_, _)
removeHeadingMarks(text, i) ==
    IF i > Len(text) THEN <<>>
    ELSE LET run == RunLength(text, {"#"}, i)
         IN  IF run >= 1 /\ run <= 6 /\ i + run <= Len(text)
                /\ text[i + run] \in WhitespaceChars
             THEN removeHeadingMarks(text, i + run + 1)
             ELSE <<text[i]>> \o removeHeadingMarks(text, i + 1)

\* text.replace(/\[(.*?)\]\(.*?\)/g, '$1'): [label](target) becomes label.
LinkLabelEnds(text, i) ==
    {j \in (i + 1)..Len(text) :
        /\ MatchesAt(text, <<"]", "(">>, j)
        /\ \A k \in (i + 1)..(j - 1) : text[k] \notin LineTerminators
        /\ ClosingPositions(text, <<")">>, j + 2) # {}}
RECURSIVE unwrapLinks(_, _)
unwrapLinks(text, i) ==
    IF i > Len(text) THEN <<>>
    ELSE LET ends == LinkLabelEnds(text, i)
         IN  IF text[i] = "[" /\ ends # {}
             THEN SubSeq(text, i + 1, Min(ends) - 1)
                  \o unwrapLinks(text, Min(ClosingPositions(text, <<")">>, Min(ends) + 2)) + 1)
             ELSE <<text[i]>> \o unwrapLinks(text, i + 1)

\* A line starts at position i (the m flag's ^).
AtLineStart(text, i) == i = 1 \/ text[i - 1] \in LineTerminators

\* text.replace(/\n{3,}/g, '\n\n')
RECURSIVE collapseNewlines(_, _)
collapseNewlines(text, i) ==
    IF i > Len(text) THEN <<>>
    ELSE LET run == RunLength(text, {"\n"}, i)
         IN  IF run >= 3 THEN <<"\n", "\n">> \o collapseNewlines(text, i + run)
             ELSE <<text[i]>> \o collapseNewlines(text, i + 1)

\* Mutant: /^\s/gm, one whitespace character at the start of a line goes.
RECURSIVE removeLeadingWhitespace_OneChar(_, _)
removeLeadingWhitespace_OneChar(text, i) ==
    IF i > Len(text) THEN <<>>
    ELSE IF AtLineStart(text, i) /\ text[i] \in WhitespaceChars
    THEN removeLeadingWhitespace_OneChar(text, i + 1)
    ELSE <<text[i]>> \o removeLeadingWhitespace_OneChar(text, i + 1)

\* text.replace(/^\s+/gm, ''): the whitespace run at the start of a line
\* goes, line breaks included.
RECURSIVE removeLeadingWhitespace(_, _)
removeLeadingWhitespace(text, i) ==
    IF i > Len(text) THEN <<>>
    ELSE IF AtLineStart(text, i) /\ text[i] \in WhitespaceChars
    THEN removeLeadingWhitespace(text, i + RunLength(text, WhitespaceChars, i))
    ELSE <<text[i]>> \o removeLeadingWhitespace(text, i + 1)

(***************************************************************************)
(* SlideConfigService                                                      *)
(***************************************************************************)
SlideIds == <<"overview", "outcomes", "next_steps">>
SlideTitles ==
    <<<<"O", "v", "e", "r", "v", "i", "e", "w">>,
      <<"E", "x", "p", "e", "c", "t", "e", "d", " ", "O", "u", "t", "c", "o", "m", "e", "s">>,
      <<"N", "e", "x", "t", " ", "S", "t", "e", "p", "s">>>>
NoRules == [none |-> TRUE]

\* placeholder_mapping of a slide entry, as the configuration guide writes
\* it: the tokens of the template that take the slide's content and, when
\* the entry names them, its confidence and warnings ("" when left out).
PlaceholderMapping(id) ==
    CASE id = "overview" ->
             [content |-> "OVERVIEW_CONTENT", confidence |-> "OVERVIEW_CONFIDENCE",
              warnings |-> "OVERVIEW_WARNINGS"]
      [] id = "outcomes" ->
             [content |-> "OUTCOMES_CONTENT", confidence |-> "", warnings |-> ""]
      [] id = "next_steps" ->
             [content |-> "NEXT_STEPS", confidence |-> "", warnings |-> ""]
      [] id = "risk_assessment" ->
             [content |-> "RISK_CONTENT", confidence |-> "", warnings |-> ""]

\* A slide entry of the configuration document. A string the document leaves
\* out is "" (a title: the empty text); a section it leaves out is Missing;
\* validation and scoring are NoRules when left out.
SlideEntry(id, enabled, order, title, validation, scoring) ==
    [id |-> id, enabled |-> enabled, order |-> order, title |-> title,
     placeholder_mapping |-> PlaceholderMapping(id),
     validation |-> validation, scoring |-> scoring]

\* The parsed document: what YAML.parse returns.
ConfigDoc(version, compliance, formatting, slides) ==
    [version |-> version,
     metadata |-> [author |-> "Presidio", description |-> "Slides"],
     defaults |-> [max_tokens |-> 2000],
     global_formatting |-> formatting,
     compliance |-> compliance,
     slides |-> slides]

\* validateConfiguration: the Joi schema, as far as the documents of the
\* model can break it (a null document, a required field left out).
validateConfiguration(doc) ==
    /\ doc # NullConfig
    /\ doc.version # ""
    /\ \A i \in 1..Len(doc.slides) :
          /\ doc.slides[i].id # ""
          /\ doc.slides[i].title # <<>>

getFallbackConfiguration ==
    [version |-> "1.0",
     metadata |-> [author |-> "System", description |-> "Fallback configuration"],
     defaults |-> [max_tokens |-> 2000],
     global_formatting |-> Missing,
     compliance |-> Missing,
     slides |-> <<>>]

\* Mutant: a failed load always puts the fallback configuration in place.
loadConfiguration_AlwaysFallback(current, file) ==
    IF file.exists /\ file.parses /\ validateConfiguration(file.doc)
    THEN file.doc
    ELSE getFallbackConfiguration

\* Mutant: a failed load leaves the store without any configuration.
loadConfiguration_NoFallback(current, file) ==
    IF file.exists /\ file.parses /\ validateConfiguration(file.doc)
    THEN file.doc
    ELSE current

\* loadConfiguration: the value of this.config afterwards.
loadConfiguration(current, file) ==
    IF file.exists /\ file.parses /\ validateConfiguration(file.doc)
    THEN file.doc
    ELSE IF current = NullConfig THEN getFallbackConfiguration
    ELSE current

LoadSucceeds(file) == file.exists /\ file.parses /\ validateConfiguration(file.doc)

\* getConfiguration: loads first when nothing is held.
getConfiguration(current, file) ==
    IF current = NullConfig THEN loadConfiguration(current, file) ELSE current

\* Array.prototype.sort with (a, b) => a.order - b.order: a stable sort.
RECURSIVE InsertByOrder(_, _)
InsertByOrder(sorted, slide) ==
    IF sorted = <<>> THEN <<slide>>
    ELSE IF sorted[Len(sorted)].order <= slide.order THEN Append(sorted, slide)
    ELSE Append(InsertByOrder(SubSeq(sorted, 1, Len(sorted) - 1), slide), sorted[Len(sorted)])

RECURSIVE SortByOrder(_)
SortByOrder(slides) ==
    IF slides = <<>> THEN <<>>
    ELSE InsertByOrder(SortByOrder(SubSeq(slides, 1, Len(slides) - 1)), slides[Len(slides)])

\* getEnabledSlides: the enabled slides, ascending by order; a store left
\* without a configuration throws on config.slides.
\* Mutant: the enabled slides are returned in document order, unsorted.
getEnabledSlides_Unsorted(current, file) ==
    LET cfg == getConfiguration(current, file)
    IN  IF cfg = NullConfig THEN [threw |-> TRUE]
        ELSE [threw |-> FALSE, slides |-> SelectSeq(cfg.slides, LAMBDA sl : sl.enabled)]

getEnabledSlides(current, file) ==
    LET cfg == getConfiguration(current, file)
    IN  IF cfg = NullConfig THEN [threw |-> TRUE]
        ELSE [threw |-> FALSE,
              slides |-> SortByOrder(SelectSeq(cfg.slides, LAMBDA sl : sl.enabled))]

getComplianceTerms(cfg) ==
    IF cfg.compliance = Missing
    THEN [risky_terms |-> <<>>, absolute_terms |-> <<>>, qualifying_terms |-> <<>>]
    ELSE cfg.compliance

getGlobalFormatting(cfg) ==
    IF cfg.global_formatting = Missing
    THEN [remove_markdown |-> FALSE, remove_section_headers |-> FALSE, bullet_char |-> <<>>]
    ELSE cfg.global_formatting

(***************************************************************************)
(* SlideGeneratorService                                                   *)
(***************************************************************************)
\* removeMarkdown
removeMarkdown(text) ==
    LET bold == unwrapDelimited(text, <<"*", "*">>, 1)
        italic == unwrapDelimited(bold, <<"*">>, 1)
        underBold == unwrapDelimited(italic, <<"_", "_">>, 1)
        underItalic == unwrapDelimited(underBold, <<"_">>, 1)
        headings == removeHeadingMarks(underItalic, 1)
        code == unwrapDelimited(headings, <<"U+0060">>, 1)
    IN  unwrapLinks(code, 1)

KnownHeaders ==
    <<{<<"O", "v", "e", "r", "v", "i", "e", "w">>,
       <<"S", "o", "l", "u", "t", "i", "o", "n", " ", "&", " ", "A", "p", "p", "r", "o", "a", "c", "h">>,
       <<"E", "x", "p", "e", "c", "t", "e", "d", " ", "O", "u", "t", "c", "o", "m", "e", "s">>,
       <<"N", "e", "x", "t", " ", "S", "t", "e", "p", "s">>},
      {<<"P", "r", "o", "b", "l", "e", "m", " ", "S", "t", "a", "t", "e", "m", "e", "n", "t">>,
       <<"A", "s", "s", "u", "m", "p", "t", "i", "o", "n", "s">>,
       <<"C", "l", "i", "e", "n", "t", " ", "R", "e", "s", "p", "o", "n", "s", "i", "b", "i", "l", "i", "t", "i", "e", "s">>}>>

\* text.replace(/^(A|B|...)[:\s]*/i, ''): a header name at the very start of
\* the text goes, with the colons and whitespace that follow it.
stripHeader(text, names) ==
    LET lowered == toLowerCase(text)
        hits == {n \in names : MatchesAt(lowered, toLowerCase(n), 1)}
    IN  IF hits = {} THEN text
        ELSE LET name == CHOOSE n \in hits : TRUE
                 after == Len(name) + 1
             IN  From(text, after + RunLength(text, WhitespaceChars \cup {":"}, after))

\* removeSectionHeaders, for a title without RegExp metacharacters
removeSectionHeaders(text, slideTitle) ==
    stripHeader(stripHeader(stripHeader(text, {slideTitle}), KnownHeaders[1]), KnownHeaders[2])

BulletGlyphs == {"-", "*", "U+00B7", "U+2022"}

\* text.replace(/^[-*\u00b7\u2022]/gm, bulletChar)
RECURSIVE replaceBulletGlyphs(_, _, _)
replaceBulletGlyphs(text, bulletChar, i) ==
    IF i > Len(text) THEN <<>>
    ELSE IF AtLineStart(text, i) /\ text[i] \in BulletGlyphs
    THEN bulletChar \o replaceBulletGlyphs(text, bulletChar, i + 1)
    ELSE <<text[i]>> \o replaceBulletGlyphs(text, bulletChar, i + 1)

\* text.replace(/^\d+\./gm, bulletChar)
RECURSIVE replaceNumberedBullets(_, _, _)
replaceNumberedBullets(text, bulletChar, i) ==
    IF i > Len(text) THEN <<>>
    ELSE LET run == RunLength(text, DigitChars, i)
         IN  IF AtLineStart(text, i) /\ run >= 1 /\ i + run <= Len(text)
                /\ text[i + run] = "."
             THEN bulletChar \o replaceNumberedBullets(text, bulletChar, i + run + 1)
             ELSE <<text[i]>> \o replaceNumberedBullets(text, bulletChar, i + 1)

\* standardizeBullets
standardizeBullets(text, bulletChar) ==
    replaceNumberedBullets(replaceBulletGlyphs(text, bulletChar, 1), bulletChar, 1)

\* processContent
processContent(content, slideConfig, formatting) ==
    LET plain == IF formatting.remove_markdown THEN removeMarkdown(content) ELSE content
        headless == IF formatting.remove_section_headers
                    THEN removeSectionHeaders(plain, slideConfig.title)
                    ELSE plain
        bulleted == IF formatting.bullet_char # <<>>
                    THEN standardizeBullets(headless, formatting.bullet_char)
                    ELSE headless
    IN  trim(removeLeadingWhitespace(collapseNewlines(bulleted, 1), 1))

\* Math.round of a number held in halves
MathRound(halves) == (halves + 1) \div 2

Clamp(lo, hi, x) == IF x < lo THEN lo ELSE IF x > hi THEN hi ELSE x

\* x || fallback
OrElse(x, fallback) == IF x # 0 THEN x ELSE fallback

\* terms.some(term => content.toLowerCase().includes(term.toLowerCase()))
someTermIncluded(content, terms) ==
    \E k \in 1..Len(terms) : includesIgnoreCase(content, terms[k])

\* The entries of a list of terms that the content does not contain.
AbsentEntries(content, terms) ==
    {k \in 1..Len(terms) : ~includesIgnoreCase(content, terms[k])}

\* Mutant: the missing-keyword penalty is taken once, however many are absent.
keywordPenalty_Once(content, validation, scoring) ==
    IF validation # NoRules /\ scoring.penalties.missing_required_keyword # 0
       /\ AbsentEntries(content, validation.required_keywords) # {}
    THEN scoring.penalties.missing_required_keyword
    ELSE 0

\* The required-keywords loop of calculateConfidence: what it subtracts.
keywordPenalty(content, validation, scoring) ==
    IF validation # NoRules /\ scoring.penalties.missing_required_keyword # 0
    THEN scoring.penalties.missing_required_keyword
         * Cardinality(AbsentEntries(content, validation.required_keywords))
    ELSE 0

\* The risky-terms check of calculateConfidence: what it subtracts.
riskyPenalty(content, scoring, compliance) ==
    IF scoring.penalties.contains_risky_term # 0
       /\ someTermIncluded(content, compliance.risky_terms)
    THEN scoring.penalties.contains_risky_term
    ELSE 0

\* The qualifying-terms check of calculateConfidence: what it adds.
qualifyingBonus(content, scoring, compliance) ==
    IF scoring.bonuses.has_qualifying_terms # 0
       /\ someTermIncluded(content, compliance.qualifying_terms)
    THEN scoring.bonuses.has_qualifying_terms
    ELSE 0

\* The word-count checks of calculateConfidence: what they subtract
\* (defaults 20 and 10, in halves).
lengthPenalty(content, validation, scoring) ==
    IF validation = NoRules THEN 0
    ELSE (IF validation.min_word_count # 0 /\ wordCount(content) < validation.min_word_count
          THEN OrElse(scoring.penalties.too_short, 40) ELSE 0)
         + (IF validation.max_word_count # 0 /\ wordCount(content) > validation.max_word_count
            THEN OrElse(scoring.penalties.too_long, 20) ELSE 0)

\* The numbers check of calculateConfidence: what it subtracts (default 10).
metricsPenalty(content, validation, scoring) ==
    IF validation # NoRules /\ validation.should_contain_numbers /\ ~matchesDigits(content)
    THEN OrElse(scoring.penalties.missing_metrics, 20)
    ELSE 0

\* The score calculateConfidence holds before the final round and clamp, in
\* halves (85 is 170).
rawScore(content, slideConfig, compliance) ==
    OrElse(slideConfig.scoring.base_score, 170)
    - riskyPenalty(content, slideConfig.scoring, compliance)
    + qualifyingBonus(content, slideConfig.scoring, compliance)
    - lengthPenalty(content, slideConfig.validation, slideConfig.scoring)
    - keywordPenalty(content, slideConfig.validation, slideConfig.scoring)
    - metricsPenalty(content, slideConfig.validation, slideConfig.scoring)

\* Mutant: the final Math.max(0, Math.min(100, ...)) is left out.
calculateConfidence_Unclamped(content, slideConfig, compliance) ==
    IF slideConfig.scoring = NoRules THEN 85
    ELSE MathRound(rawScore(content, slideConfig, compliance))

\* calculateConfidence
calculateConfidence(content, slideConfig, compliance) ==
    IF slideConfig.scoring = NoRules THEN 85
    ELSE Clamp(0, 100, MathRound(rawScore(content, slideConfig, compliance)))

\* `${n}` for a natural number n
DigitOf(d) == <<"0", "1", "2", "3", "4", "5", "6", "7", "8", "9">>[d + 1]
RECURSIVE NumberText(_)
NumberText(n) ==
    IF n < 10 THEN <<DigitOf(n)>> ELSE NumberText(n \div 10) \o <<DigitOf(n % 10)>>

\* The warning messages of validateContent and generateAllSlides.
WarningSign == <<"U+26A0", "U+FE0F", " ">>
ContainsRiskyTerm == <<"C", "o", "n", "t", "a", "i", "n", "s", " ", "r", "i", "s", "k", "y", " ", "t", "e", "r", "m", ":", " ">>
ConsiderRevision == <<" ", "-", " ", "c", "o", "n", "s", "i", "d", "e", "r", " ", "r", "e", "v", "i", "s", "i", "o", "n">>
AbsoluteStatementDetected == <<"A", "b", "s", "o", "l", "u", "t", "e", " ", "s", "t", "a", "t", "e", "m", "e", "n", "t", " ", "d", "e", "t", "e", "c", "t", "e", "d", ":", " ">>
ConsiderQualifying == <<" ", "-", " ", "c", "o", "n", "s", "i", "d", "e", "r", " ", "q", "u", "a", "l", "i", "f", "y", "i", "n", "g">>
ContentTooShort == <<"C", "o", "n", "t", "e", "n", "t", " ", "t", "o", "o", " ", "s", "h", "o", "r", "t", ":", " ">>
WordsMinimum == <<" ", "w", "o", "r", "d", "s", " ", "(", "m", "i", "n", "i", "m", "u", "m", ":", " ">>
ContentTooLong == <<"C", "o", "n", "t", "e", "n", "t", " ", "t", "o", "o", " ", "l", "o", "n", "g", ":", " ">>
WordsMaximum == <<" ", "w", "o", "r", "d", "s", " ", "(", "m", "a", "x", "i", "m", "u", "m", ":", " ">>
MissingRequiredKeyword == <<"M", "i", "s", "s", "i", "n", "g", " ", "r", "e", "q", "u", "i", "r", "e", "d", " ", "k", "e", "y", "w", "o", "r", "d", ":", " ">>
TooManyBulletPoints == <<"T", "o", "o", " ", "m", "a", "n", "y", " ", "b", "u", "l", "l", "e", "t", " ", "p", "o", "i", "n", "t", "s", ":", " ">>
BulletsMaximum == <<" ", "(", "m", "a", "x", "i", "m", "u", "m", ":", " ">>
GenerationFailed == <<"G", "e", "n", "e", "r", "a", "t", "i", "o", "n", " ", "f", "a", "i", "l", "e", "d">>

riskyTermWarning(term) ==
    WarningSign \o ContainsRiskyTerm \o <<"\"">> \o term \o <<"\"">> \o ConsiderRevision
absoluteTermWarning(term) ==
    WarningSign \o AbsoluteStatementDetected \o <<"\"">> \o term \o <<"\"">>
    \o ConsiderQualifying
tooShortWarning(words, minimum) ==
    WarningSign \o ContentTooShort \o NumberText(words) \o WordsMinimum
    \o NumberText(minimum) \o <<")">>
tooLongWarning(words, maximum) ==
    WarningSign \o ContentTooLong \o NumberText(words) \o WordsMaximum
    \o NumberText(maximum) \o <<")">>
missingKeywordWarning(keyword) ==
    WarningSign \o MissingRequiredKeyword \o <<"\"">> \o keyword \o <<"\"">>
tooManyBulletsWarning(bullets, maximum) ==
    WarningSign \o TooManyBulletPoints \o NumberText(bullets) \o BulletsMaximum
    \o NumberText(maximum) \o <<")">>

\* content.split('\n').filter(line => line.trim().startsWith(bullet)).length
bulletLines(content) ==
    Cardinality({i \in 1..(Len(content) + 1) :
        /\ (i = 1 \/ content[i - 1] = "\n")
        /\ LET first == i + RunLength(content, WhitespaceChars \ {"\n"}, i)
           IN  first <= Len(content) /\ content[first] = "U+2022"})

\* validateContent: the warnings, in the order the code pushes them
validateContent(content, slideConfig, compliance) ==
    LET validation == slideConfig.validation
        words == wordCount(content)
        bullets == bulletLines(content)
        risky == SelectSeq(compliance.risky_terms,
                           LAMBDA t : includesIgnoreCase(content, t))
        absolute == SelectSeq(compliance.absolute_terms,
                              LAMBDA t : testWholeWord(content, t))
        absent == IF validation = NoRules THEN <<>>
                  ELSE SelectSeq(validation.required_keywords,
                                 LAMBDA t : ~includesIgnoreCase(content, t))
    IN  [k \in 1..Len(risky) |-> riskyTermWarning(risky[k])]
        \o [k \in 1..Len(absolute) |-> absoluteTermWarning(absolute[k])]
        \o (IF validation = NoRules THEN <<>>
            ELSE (IF validation.min_word_count # 0 /\ words < validation.min_word_count
                  THEN <<tooShortWarning(words, validation.min_word_count)>> ELSE <<>>)
                 \o (IF validation.max_word_count # 0 /\ words > validation.max_word_count
                     THEN <<tooLongWarning(words, validation.max_word_count)>> ELSE <<>>)
                 \o [k \in 1..Len(absent) |-> missingKeywordWarning(absent[k])]
                 \o (IF validation.max_bullets # 0 /\ bullets > validation.max_bullets
                     THEN <<tooManyBulletsWarning(bullets, validation.max_bullets)>>
                     ELSE <<>>))

NoContentGenerated == <<"N", "o", " ", "c", "o", "n", "t", "e", "n", "t", " ", "g", "e", "n", "e", "r", "a", "t", "e", "d">>
ErrorGenerating == <<"E", "r", "r", "o", "r", " ", "g", "e", "n", "e", "r", "a", "t", "i", "n", "g", " ">>

\* What the provider does with one prompt: it throws, or it returns a
\* response whose first content item holds a text (possibly none).
ProviderThrows(message) == [throws |-> TRUE, message |-> message]
ProviderReturns(text) == [throws |-> FALSE, text |-> text]

\* generateSlide, once the provider has returned
generateSlide(slideConfig, cfg, response) ==
    LET content == IF response.text # <<>> THEN response.text ELSE NoContentGenerated
        processedContent == processContent(content, slideConfig, getGlobalFormatting(cfg))
    IN  [slideId |-> slideConfig.id,
         title |-> slideConfig.title,
         content |-> processedContent,
         confidence |-> calculateConfidence(processedContent, slideConfig,
                                            getComplianceTerms(cfg)),
         warnings |-> validateContent(processedContent, slideConfig,
                                      getComplianceTerms(cfg)),
         placeholders |-> slideConfig.placeholder_mapping]

\* The error result generateAllSlides records in its catch block.
errorResult(slideConfig, message) ==
    [slideId |-> slideConfig.id,
     title |-> slideConfig.title,
     content |-> ErrorGenerating \o slideConfig.title \o <<":", " ">> \o message,
     confidence |-> 0,
     warnings |-> <<GenerationFailed>>,
     placeholders |-> slideConfig.placeholder_mapping]

\* Mutant: a failed call is handled like an empty response.
slideOutcome_FailureAsEmpty(slideConfig, cfg, outcome) ==
    generateSlide(slideConfig, cfg, ProviderReturns(<<>>))

\* One iteration of the loop of generateAllSlides: the result it pushes.
slideOutcome(slideConfig, cfg, outcome) ==
    IF outcome.throws THEN errorResult(slideConfig, outcome.message)
    ELSE generateSlide(slideConfig, cfg, outcome)

(***************************************************************************)
(* Specification SpecCfg: the configuration store over a changing file     *)
(***************************************************************************)
\* Slide entries of the documents: the slide at position i is SlideIds[i],
\* enabled or not, with a title or without one (which fails the schema); the
\* file lists the slides in descending order.
CfgSlideAt(i) ==
    {SlideEntry(SlideIds[i], TRUE, Len(SlideIds) + 1 - i, SlideTitles[i], NoRules, NoRules),
     SlideEntry(SlideIds[i], FALSE, Len(SlideIds) + 1 - i, SlideTitles[i], NoRules, NoRules),
     SlideEntry(SlideIds[i], TRUE, Len(SlideIds) + 1 - i, <<>>, NoRules, NoRules)}

RECURSIVE CfgSlideLists(_)
CfgSlideLists(n) ==
    IF n = 0 THEN {<<>>}
    ELSE LET shorter == CfgSlideLists(n - 1)
         IN  shorter \cup {Append(sl, e) : sl \in {t \in shorter : Len(t) = n - 1},
                                            e \in CfgSlideAt(n)}

\* What YAML.parse can return: null (an empty file), a document without a
\* version, or a document with a version and a slide list.
CfgDocs ==
    {NullConfig, ConfigDoc("", Missing, Missing, <<>>)} \cup
    {ConfigDoc("1.0", Missing, Missing, slides) : slides \in CfgSlideLists(MaxSlides)}

ConfigFiles ==
    {[exists |-> FALSE], [exists |-> TRUE, parses |-> FALSE]}
    \cup {[exists |-> TRUE, parses |-> TRUE, doc |-> d] : d \in CfgDocs}

\* new SlideConfigService(configPath): loads once, watches in development.
InitCfg ==
    /\ configFile \in ConfigFiles
    /\ config = loadConfiguration(NullConfig, configFile)
    /\ everLoaded = LoadSucceeds(configFile)
    /\ isWatching \in BOOLEAN
    /\ slidesAnswer = NoCall
    /\ IdleRegistry
    /\ IdleSel
    /\ IdleOrch
    /\ IdleGen
    /\ IdlePptx
    /\ IdleNorm
    /\ IdleEngine
    /\ IdleConc
    /\ IdleSse
    /\ IdleWiz

\* The environment rewrites, breaks or removes the file; a watching store
\* reloads from the changed file (watchConfiguration's callback).
FileChangedTo(files) ==
    \E f \in files :
        /\ f # configFile
        /\ configFile' = f
        /\ IF isWatching
           THEN /\ config' = loadConfiguration(config, f)
                /\ everLoaded' = (everLoaded \/ LoadSucceeds(f))
           ELSE UNCHANGED <<config, everLoaded>>
        /\ UNCHANGED <<isWatching, slidesAnswer, cfgOthers>>

FileChanged == FileChangedTo(ConfigFiles)

\* reload()
Reload ==
    /\ config' = loadConfiguration(config, configFile)
    /\ everLoaded' = (everLoaded \/ LoadSucceeds(configFile))
    /\ UNCHANGED <<configFile, isWatching, slidesAnswer, cfgOthers>>

\* getEnabledSlides()
GetEnabledSlides ==
    /\ slidesAnswer' = getEnabledSlides(config, configFile)
    /\ config' = getConfiguration(config, configFile)
    /\ everLoaded' = (everLoaded \/ (config = NullConfig /\ LoadSucceeds(configFile)))
    /\ UNCHANGED <<configFile, isWatching, cfgOthers>>

\* destroy()
Destroy ==
    /\ isWatching
    /\ isWatching' = FALSE
    /\ UNCHANGED <<configFile, config, everLoaded, slidesAnswer, cfgOthers>>

NextCfg == FileChanged \/ Reload \/ GetEnabledSlides \/ Destroy

SpecCfg == InitCfg /\ [][NextCfg]_vars

(***************************************************************************)
(* generateAllSlides, step by step                                         *)
(***************************************************************************)
\* getDefaults
getDefaults(cfg) == cfg.defaults

\* mapSlideIdToSectionType: the section a slide id stands for ("" is null)
SectionTypes ==
    {"problem_statement", "overview", "solution_approach", "outcomes", "next_steps",
     "assumptions", "client_responsibilities"}
mapSlideIdToSectionType(slideId) == IF slideId \in SectionTypes THEN slideId ELSE ""

\* proposal.sections is an object: a sequence of entries in insertion order,
\* an assignment to a key it holds replaces the entry in place.
HasSection(sections, key) == \E i \in 1..Len(sections) : sections[i].key = key
SetSection(sections, key, section) ==
    LET entry == [key |-> key, content |-> section.content,
                  confidence |-> section.confidence, warnings |-> section.warnings]
    IN  IF HasSection(sections, key)
        THEN [i \in 1..Len(sections) |->
                 IF sections[i].key = key THEN entry ELSE sections[i]]
        ELSE Append(sections, entry)

\* generateProposal: the loop mapping the generated slides to sections
RECURSIVE mapSlidesToSections(_, _, _)
mapSlidesToSections(slides, k, sections) ==
    IF k > Len(slides) THEN sections
    ELSE LET sectionType == mapSlideIdToSectionType(slides[k].slideId)
         IN  mapSlidesToSections(slides, k + 1,
                 IF sectionType # "" THEN SetSection(sections, sectionType, slides[k])
                 ELSE sections)

RequiredSections == <<"overview", "solution_approach", "outcomes", "next_steps">>
SectionNotGenerated ==
    <<"S", "e", "c", "t", "i", "o", "n", " ", "n", "o", "t", " ",
      "g", "e", "n", "e", "r", "a", "t", "e", "d">>

\* ensureRequiredSections
RECURSIVE ensureRequiredSections(_, _)
ensureRequiredSections(sections, k) ==
    IF k > Len(RequiredSections) THEN sections
    ELSE ensureRequiredSections(
             IF HasSection(sections, RequiredSections[k]) THEN sections
             ELSE SetSection(sections, RequiredSections[k],
                             [content |-> <<>>, confidence |-> 0,
                              warnings |-> <<SectionNotGenerated>>]),
             k + 1)

RECURSIVE SumConfidence(_, _)
SumConfidence(entries, k) ==
    IF k > Len(entries) THEN 0 ELSE entries[k].confidence + SumConfidence(entries, k + 1)

\* Math.round(total / count) for a total >= 0 and a count > 0
RoundedQuotient(total, count) == (2 * total + count) \div (2 * count)

\* calculateOverallConfidence
calculateOverallConfidence(sections) ==
    IF Len(sections) = 0 THEN 0
    ELSE RoundedQuotient(SumConfidence(sections, 1), Len(sections))

\* generateProposal, once generateAllSlides has returned the slides
assembleProposal(slides) ==
    LET sections == ensureRequiredSections(mapSlidesToSections(slides, 1, <<>>), 1)
    IN  [sections |-> sections,
         overallConfidence |-> calculateOverallConfidence(sections)]

\* const slides = this.configService.getEnabledSlides(); results = []
StartBatch ==
    /\ genPc = "idle"
    /\ LET answer == getEnabledSlides(config, configFile)
       IN  /\ ~answer.threw
           /\ genSlides' = answer.slides
    /\ config' = getConfiguration(config, configFile)
    /\ everLoaded' = (everLoaded \/ (config = NullConfig /\ LoadSucceeds(configFile)))
    /\ genPc' = "running"
    /\ genIndex' = 0
    /\ genResults' = <<>>
    /\ genProgress' = <<>>
    /\ genOutcomes' = <<>>
    /\ genCalls' = <<>>
    /\ proposal' = NoCall
    /\ UNCHANGED genOthers

\* An iteration of the loop up to the await in generateSlide: the progress
\* callback, then the provider call with the settings of getDefaults().
InvokeProvider ==
    /\ genPc = "running"
    /\ genIndex < Len(genSlides)
    /\ LET slideConfig == genSlides[genIndex + 1]
       IN  /\ genProgress' = Append(genProgress,
                                   <<slideConfig.title, genIndex + 1, Len(genSlides)>>)
           /\ genCalls' = Append(genCalls,
                   [slideId |-> slideConfig.id, order |-> slideConfig.order,
                    max_tokens |-> OrElse(getDefaults(config).max_tokens, 2000)])
    /\ genPc' = "awaiting"
    /\ UNCHANGED <<genSlides, genIndex, genResults, genOutcomes, proposal,
                   config, everLoaded, genOthers>>

\* The rest of the iteration: the provider call returns or throws, and the
\* result (the error result, when it throws) is pushed.
ProviderSettles(outcomes) ==
    /\ genPc = "awaiting"
    /\ \E outcome \in outcomes :
          /\ genResults' = Append(genResults,
                                  slideOutcome(genSlides[genIndex + 1], config, outcome))
          /\ genOutcomes' = Append(genOutcomes, outcome)
    /\ genIndex' = genIndex + 1
    /\ genPc' = "running"
    /\ UNCHANGED <<genSlides, genProgress, genCalls, proposal,
                   config, everLoaded, genOthers>>

\* The loop ends: return results.
FinishBatch ==
    /\ genPc = "running"
    /\ genIndex = Len(genSlides)
    /\ genPc' = "done"
    /\ UNCHANGED <<genSlides, genIndex, genResults, genProgress, genOutcomes,
                   genCalls, proposal, config, everLoaded, genOthers>>

\* generateProposal after the await: sections and overall confidence.
AssembleProposal ==
    /\ genPc = "done"
    /\ proposal = NoCall
    /\ proposal' = assembleProposal(genResults)
    /\ UNCHANGED <<genPc, genSlides, genIndex, genResults, genProgress, genOutcomes,
                   genCalls, config, everLoaded, genOthers>>

\* A store that has loaded the document d from its file.
LoadedFrom(d) ==
    /\ configFile = [exists |-> TRUE, parses |-> TRUE, doc |-> d]
    /\ config = loadConfiguration(NullConfig, configFile)
    /\ everLoaded = LoadSucceeds(configFile)
    /\ isWatching = FALSE
    /\ slidesAnswer = NoCall

Ensure == <<"e", "n", "s", "u", "r", "e">>
Guarantee == <<"g", "u", "a", "r", "a", "n", "t", "e", "e">>
Will == <<"w", "i", "l", "l">>
Proposed == <<"p", "r", "o", "p", "o", "s", "e", "d">>
Presidio == <<"p", "r", "e", "s", "i", "d", "i", "o">>
Cloud == <<"c", "l", "o", "u", "d">>
Bullet == <<"U+2022">>

Compliance(risky) ==
    [risky_terms |-> risky, absolute_terms |-> <<Will>>, qualifying_terms |-> <<Proposed>>]

Formatting(on) ==
    [remove_markdown |-> on, remove_section_headers |-> on,
     bullet_char |-> IF on THEN Bullet ELSE <<>>]

Validation(keywords, minWords, maxWords, maxBullets, numbers) ==
    [required_keywords |-> keywords, min_word_count |-> minWords,
     max_word_count |-> maxWords, max_bullets |-> maxBullets,
     should_contain_numbers |-> numbers]

\* Scores and penalties are in halves of a point; 0 is a number left out.
Scoring(base, risky, keyword, short, bonus) ==
    [base_score |-> base,
     penalties |-> [contains_risky_term |-> risky, missing_required_keyword |-> keyword,
                    too_short |-> short, too_long |-> 0, missing_metrics |-> 0],
     bonuses |-> [has_qualifying_terms |-> bonus]]

(***************************************************************************)
(* PPTXService: bullet processing                                          *)
(***************************************************************************)
maxLength == 80
splitTolerance == 10
maxBulletLength == 150
maxTotalBullets == 6

Space == <<" ">>
And == <<"a", "n", "d">>

\* The alternation of the conjunction patterns, in its order.
ConnectorWords ==
    <<And,
      <<"w", "h", "i", "l", "e">>,
      <<"w", "i", "t", "h">>,
      <<"i", "n", "c", "l", "u", "d", "i", "n", "g">>,
      <<"t", "h", "r", "o", "u", "g", "h">>,
      <<"v", "i", "a">>,
      <<"b", "y">>,
      <<"u", "s", "i", "n", "g">>,
      <<"e", "n", "s", "u", "r", "i", "n", "g">>>>

\* A lower-case pattern matches at position i, letter case ignored (the i flag).
MatchesAtIgnoreCase(text, pat, i) ==
    /\ i + Len(pat) - 1 <= Len(text)
    /\ \A k \in 1..Len(pat) : ToLowerChar(text[i + k - 1]) = pat[k]

\* The alternatives of (and|while|...) that match at position i with
\* whitespace after them.
ConnectorsAt(text, i) ==
    {k \in 1..Len(ConnectorWords) :
        /\ MatchesAtIgnoreCase(text, ConnectorWords[k], i)
        /\ RunLength(text, WhitespaceChars, i + Len(ConnectorWords[k])) >= 1}

\* Length of the word at position i and of the whitespace after it.
WordAndSpaceLen(text, i, word) ==
    Len(word) + RunLength(text, WhitespaceChars, i + Len(word))

\* The first alternative counts.
FirstConnectorLen(text, i, hits) ==
    IF hits = {} THEN 0 ELSE WordAndSpaceLen(text, i, ConnectorWords[Min(hits)])

\* Length of the match of (and|while|...)\s+ at position i, 0 when none.
ConnectorLenAt(text, i) == FirstConnectorLen(text, i, ConnectorsAt(text, i))

\* Length of a match in two parts, 0 when either part does not match.
BothLen(lead, rest) == IF lead > 0 /\ rest > 0 THEN lead + rest ELSE 0

\* Length of the match of \s+(and|while|...)\s+ at position i, 0 when none.
SpacedConnectorLenAt(text, i) ==
    BothLen(RunLength(text, WhitespaceChars, i),
            ConnectorLenAt(text, i + RunLength(text, WhitespaceChars, i)))

\* The separators text is split on:
\*   1  /,\s+(and|...)\s+/i     2  /\s+(and|...)\s+/i     3  /;\s+/
\*   4  /\s+\u2013\s+/     5  /\s+-\s+/              6  /\.\s+/
\*   7  ' '                     8  '\n'                   9  /[.!?]+/
\* SeparatorLenAt is the length of the match that starts at position i, 0
\* when there is none.
SeparatorLenAt(text, pattern, i) ==
    LET ws == RunLength(text, WhitespaceChars, i)
        wsNext == RunLength(text, WhitespaceChars, i + 1)
        dashed(dash) ==
            IF ws >= 1 /\ i + ws <= Len(text) /\ text[i + ws] = dash
               /\ RunLength(text, WhitespaceChars, i + ws + 1) >= 1
            THEN ws + 1 + RunLength(text, WhitespaceChars, i + ws + 1)
            ELSE 0
    IN  CASE pattern = 1 ->
                BothLen(IF text[i] = "," THEN 1 ELSE 0, SpacedConnectorLenAt(text, i + 1))
          [] pattern = 2 -> SpacedConnectorLenAt(text, i)
          [] pattern = 3 -> IF text[i] = ";" /\ wsNext >= 1 THEN 1 + wsNext ELSE 0
          [] pattern = 4 -> dashed("U+2013")
          [] pattern = 5 -> dashed("-")
          [] pattern = 6 -> IF text[i] = "." /\ wsNext >= 1 THEN 1 + wsNext ELSE 0
          [] pattern = 7 -> IF text[i] = " " THEN 1 ELSE 0
          [] pattern = 8 -> IF text[i] = "\n" THEN 1 ELSE 0
          [] pattern = 9 -> RunLength(text, {".", "!", "?"}, i)

\* The capture group of a match of pattern 1 or 2: the connector word as the
\* text spells it. The other patterns have no group.
SeparatorCapture(text, pattern, i) ==
    IF pattern \notin {1, 2} THEN <<>>
    ELSE LET len == SeparatorLenAt(text, pattern, i)
             gap == RunLength(text, WhitespaceChars,
                              IF pattern = 1 THEN i + 1 ELSE i)
             wordStart == IF pattern = 1 THEN i + 1 + gap ELSE i + gap
             wordEnd == CHOOSE e \in wordStart..(i + len - 1) :
                            /\ text[e + 1] \in WhitespaceChars
                            /\ \A k \in wordStart..e : text[k] \notin WhitespaceChars
         IN  <<SubSeq(text, wordStart, wordEnd)>>

\* The positions from `from` on where the pattern matches.
SeparatorPositions(text, pattern, from) ==
    {i \in from..Len(text) : SeparatorLenAt(text, pattern, i) > 0}

\* The first position from `from` on where the pattern matches, 0 when none.
nextSeparator(text, pattern, from) ==
    IF SeparatorPositions(text, pattern, from) = {} THEN 0
    ELSE Min(SeparatorPositions(text, pattern, from))

\* String.prototype.split: the pieces between the matches, each match's
\* capture group spliced in after the piece it ends.
RECURSIVE split(_, _, _)
splitAt(text, pattern, from, i) ==
    IF i = 0 THEN <<SubSeq(text, from, Len(text))>>
    ELSE <<SubSeq(text, from, i - 1)>>
         \o SeparatorCapture(text, pattern, i)
         \o split(text, pattern, i + SeparatorLenAt(text, pattern, i))
split(text, pattern, from) ==
    splitAt(text, pattern, from, nextSeparator(text, pattern, from))

\* match[0].replace(/[,;\s-\u2013]/g, '')
stripSeparators(matched) ==
    SelectSeq(matched, LAMBDA c : c \notin WhitespaceChars \cup {",", ";", "-", "U+2013"})

\* connector || 'and'
orAnd(connector) == IF connector # <<>> THEN connector ELSE And

\* extractConnector for the match at position i, 0 when there is none
connectorAt(text, pattern, i) ==
    IF i = 0 THEN And
    ELSE orAnd(stripSeparators(
             SubSeq(text, i, i + SeparatorLenAt(text, pattern, i) - 1)))

\* extractConnector
extractConnector(text, pattern) ==
    connectorAt(text, pattern, nextSeparator(text, pattern, 1))

Longest(fragments) ==
    IF fragments = <<>> THEN 0
    ELSE CHOOSE n \in {Len(fragments[k]) : k \in 1..Len(fragments)} :
             \A k \in 1..Len(fragments) : Len(fragments[k]) <= n

\* Strategy 1, the loop over the parts: splitResults when the loop ends.
RECURSIVE connectorLoop(_, _, _, _, _)
connectorLoop(parts, connector, i, currentPart, splitResults) ==
    IF i > Len(parts)
    THEN IF currentPart # <<>> THEN Append(splitResults, trim(currentPart))
         ELSE splitResults
    ELSE LET part == trim(parts[i])
             joined == currentPart \o Space
                       \o (IF i > 1 THEN connector ELSE <<>>) \o Space \o part
         IN  IF currentPart # <<>> /\ Len(joined) > maxLength
             THEN connectorLoop(parts, connector, i + 1, part,
                                Append(splitResults, trim(currentPart)))
             ELSE IF currentPart # <<>>
             THEN connectorLoop(parts, connector, i + 1, joined, splitResults)
             ELSE connectorLoop(parts, connector, i + 1, part, splitResults)

\* Strategy 1 for one pattern, the loop when there are several parts.
connectorResults(parts, connector) ==
    IF Len(parts) > 1 THEN connectorLoop(parts, connector, 1, <<>>, <<>>) ELSE <<>>

\* Strategy 1 for one pattern, its end: the results are returned when they
\* are several and every one is short enough.
accepted(splitResults) ==
    IF Len(splitResults) > 1 /\ Longest(splitResults) <= maxLength + splitTolerance
    THEN splitResults
    ELSE <<>>

\* Strategy 1 for one pattern: its fragments, <<>> when the pattern is
\* passed over.
connectorSplit(text, pattern) ==
    accepted(connectorResults(split(text, pattern, 1), extractConnector(text, pattern)))

\* Strategy 1: the fragments of the first pattern that is not passed over.
RECURSIVE connectorStrategy(_, _)
orNextPattern(splitResults, text, pattern) ==
    IF splitResults # <<>> THEN splitResults ELSE connectorStrategy(text, pattern + 1)
connectorStrategy(text, pattern) ==
    IF pattern > 5 THEN <<>>
    ELSE orNextPattern(connectorSplit(text, pattern), text, pattern)

\* Strategy 2, the loop over the sentences.
RECURSIVE sentenceLoop(_, _, _, _)
sentenceLoop(sentences, i, currentGroup, result) ==
    IF i > Len(sentences)
    THEN IF currentGroup # <<>> THEN Append(result, trim(currentGroup)) ELSE result
    ELSE LET sentence == sentences[i]
             sentenceWithPeriod == IF sentence[Len(sentence)] = "." THEN sentence
                                   ELSE sentence \o <<".">>
         IN  IF currentGroup # <<>>
                /\ Len(currentGroup \o Space \o sentenceWithPeriod) > maxLength
             THEN sentenceLoop(sentences, i + 1, sentenceWithPeriod,
                               Append(result, trim(currentGroup)))
             ELSE sentenceLoop(sentences, i + 1,
                               IF currentGroup # <<>>
                               THEN currentGroup \o Space \o sentenceWithPeriod
                               ELSE sentenceWithPeriod,
                               result)

\* filter(s => s.length > 0)
RECURSIVE nonEmpty(_)
nonEmpty(strings) ==
    IF strings = <<>> THEN <<>>
    ELSE (IF Len(Head(strings)) > 0 THEN <<Head(strings)>> ELSE <<>>)
         \o nonEmpty(Tail(strings))

\* Strategy 2, its end: the groups are returned when there are several.
sentenceGroups(sentences, result) ==
    IF Len(sentences) > 1 /\ Len(result) > 1 THEN result ELSE <<>>

\* Strategy 2: its fragments, <<>> when it is passed over.
sentenceStrategy(text) ==
    sentenceGroups(nonEmpty(split(text, 6, 1)),
                   sentenceLoop(nonEmpty(split(text, 6, 1)), 1, <<>>, <<>>))

Max(S) == CHOOSE x \in S : \A y \in S : x >= y

\* Length of the run of c that ends just before position i.
BackRunLength(text, chars, i) ==
    Max({n \in 0..(i - 1) : \A k \in (i - n)..(i - 1) : text[k] \in chars})

NoLineBreak(text, first, last) ==
    \A k \in first..last : text[k] \notin LineTerminators

\* text.match(/^(.*?)\s*\((.*?)\)(.*)$/): the positions of the parentheses
\* of the match.
ParenOpens(text) ==
    {p \in 1..Len(text) :
        /\ text[p] = "("
        /\ NoLineBreak(text, 1, p - BackRunLength(text, WhitespaceChars, p) - 1)}
ParenCloses(text, p) ==
    {q \in (p + 1)..Len(text) :
        /\ text[q] = ")"
        /\ NoLineBreak(text, p + 1, q - 1)
        /\ NoLineBreak(text, q + 1, Len(text))}

\* Strategy 3: its fragments, <<>> when it is passed over.
parenStrategy(text) ==
    LET opens == {p \in ParenOpens(text) : ParenCloses(text, p) # {}}
    IN  IF opens = {} THEN <<>>
        ELSE LET p == Min(opens)
                 q == Min(ParenCloses(text, p))
                 before == SubSeq(text, 1, p - BackRunLength(text, WhitespaceChars, p) - 1)
                 inside == SubSeq(text, p + 1, q - 1)
                 after == From(text, q + 1)
                 mainText == trim(before \o after)
                 parenthetical == <<"(">> \o inside \o <<")">>
             IN  IF Len(mainText) <= maxLength /\ Len(parenthetical) <= maxLength
                 THEN <<mainText, parenthetical>>
                 ELSE <<>>

\* Math.trunc(length * 0.7) in double arithmetic: for these lengths the
\* product falls just short of the exact value.
ShortProducts == {90, 170, 180, 330, 340, 350, 360, 650, 660, 670, 680, 690, 700}
SearchFrom(length) ==
    ((7 * length) \div 10) - (IF length \in ShortProducts THEN 1 ELSE 0)

\* text.lastIndexOf(pat, fromIndex), indices counted from 0; -1 when absent
lastIndexOf(text, pat, fromIndex) ==
    LET hits == {i \in 0..fromIndex : MatchesAt(text, pat, i + 1)}
    IN  IF hits = {} THEN -1 ELSE Max(hits)

breakWords ==
    <<And, <<"o", "r">>, <<"b", "u", "t">>, <<"w", "h", "i", "l", "e">>,
      <<"w", "i", "t", "h">>, <<"t", "h", "r", "o", "u", "g", "h">>, <<"b", "y">>,
      <<"f", "o", "r">>, <<"i", "n">>, <<"o", "n">>, <<"a", "t">>, <<"t", "o">>>>

\* findGoodBreakPoint
findGoodBreakPoint(text) ==
    LET indexOfWord(k) ==
            lastIndexOf(text, Space \o breakWords[k] \o Space, SearchFrom(Len(text)))
        good == {k \in 1..Len(breakWords) : 10 * indexOfWord(k) > 3 * Len(text)}
        commaIndex == lastIndexOf(text, <<",", " ">>, SearchFrom(Len(text)))
    IN  IF good # {} THEN indexOfWord(Min(good))
        ELSE IF 10 * commaIndex > 3 * Len(text) THEN commaIndex + 2
        ELSE 0

\* Strategy 4, the loop over the words.
RECURSIVE wordLoop(_, _, _, _)
wordLoop(words, i, currentBullet, result) ==
    IF i > Len(words)
    THEN IF currentBullet # <<>> THEN Append(result, trim(currentBullet)) ELSE result
    ELSE LET word == words[i]
             breakPoint == findGoodBreakPoint(currentBullet)
         IN  IF currentBullet # <<>> /\ Len(currentBullet \o Space \o word) > maxLength
             THEN IF breakPoint > 0
                  THEN wordLoop(words, i + 1,
                                trim(From(currentBullet, breakPoint + 1)) \o Space \o word,
                                Append(result, trim(SubSeq(currentBullet, 1, breakPoint))))
                  ELSE wordLoop(words, i + 1, word, Append(result, trim(currentBullet)))
             ELSE wordLoop(words, i + 1,
                           IF currentBullet # <<>> THEN currentBullet \o Space \o word
                           ELSE word,
                           result)

\* Strategy 4
wordStrategy(text) == nonEmpty(wordLoop(split(text, 7, 1), 1, <<>>, <<>>))

\* The fragments of a strategy, or of the following ones when it is passed
\* over.
orNextStrategy(fragments, following) ==
    IF fragments # <<>> THEN fragments ELSE following

\* intelligentBulletSplit
intelligentBulletSplit(text) ==
    IF Len(text) <= maxLength THEN <<text>>
    ELSE orNextStrategy(connectorStrategy(text, 1),
             orNextStrategy(sentenceStrategy(text),
                 orNextStrategy(parenStrategy(text), wordStrategy(text))))

\* The strategy intelligentBulletSplit answers with: 0 when the text is short
\* enough, else the first of strategies 1 to 3 that is not passed over, else 4.
splitStrategy(text) ==
    IF Len(text) <= maxLength THEN 0
    ELSE IF connectorStrategy(text, 1) # <<>> THEN 1
    ELSE IF sentenceStrategy(text) # <<>> THEN 2
    ELSE IF parenStrategy(text) # <<>> THEN 3
    ELSE 4

\* line.replace(/^[-\u2022*]\s*/, '')
stripBullet(line) ==
    IF line # <<>> /\ line[1] \in {"-", "U+2022", "*"}
    THEN From(line, 2 + RunLength(line, WhitespaceChars, 2))
    ELSE line

\* array.slice(0, n)
slice(array, n) == SubSeq(array, 1, IF Len(array) < n THEN Len(array) ELSE n)

\* intelligentBulletProcessing: the bullets of the content before they are
\* sized, by lines or, when that gives fewer than two, by sentences.
contentBullets(content) ==
    LET lines == split(content, 8, 1)
        trimmed == SelectSeq([k \in 1..Len(lines) |-> trim(lines[k])],
                             LAMBDA line : Len(line) > 5)
        byLines == SelectSeq([k \in 1..Len(trimmed) |-> trim(stripBullet(trimmed[k]))],
                             LAMBDA line : Len(line) > 0)
        pieces == split(content, 9, 1)
        bySentences == SelectSeq([k \in 1..Len(pieces) |-> trim(pieces[k])],
                                 LAMBDA piece : Len(piece) > 10)
    IN  IF Len(byLines) <= 1 THEN slice(bySentences, 5) ELSE byLines

BulletPrefix == <<"U+2022", " ">>

\* splitBullets.forEach(...): the fragments are pushed while there is room.
RECURSIVE pushFragments(_, _, _)
pushFragments(processedBullets, fragments, k) ==
    IF k > Len(fragments) THEN processedBullets
    ELSE pushFragments(IF Len(processedBullets) < maxTotalBullets
                       THEN Append(processedBullets, BulletPrefix \o fragments[k])
                       ELSE processedBullets,
                       fragments, k + 1)

\* Variant of sizeBullet: the bullet that takes the last place is pushed
\* whole, however long it is.
sizeBullet_LastTakenWhole(processedBullets, bulletText) ==
    IF Len(bulletText) <= maxBulletLength \/ Len(processedBullets) = maxTotalBullets - 1
    THEN Append(processedBullets, BulletPrefix \o bulletText)
    ELSE pushFragments(processedBullets, intelligentBulletSplit(bulletText), 1)

\* intelligentBulletProcessing, the body of the loop over the bullets: a
\* bullet that is short enough is pushed as it is, a longer one is split.
sizeBullet(processedBullets, bulletText) ==
    IF Len(bulletText) <= maxBulletLength
    THEN Append(processedBullets, BulletPrefix \o bulletText)
    ELSE pushFragments(processedBullets, intelligentBulletSplit(bulletText), 1)

\* intelligentBulletProcessing, the loop over the bullets.
RECURSIVE bulletLoop(_, _, _)
bulletLoop(bullets, i, processedBullets) ==
    IF i > Len(bullets) \/ Len(processedBullets) >= maxTotalBullets
    THEN processedBullets
    ELSE bulletLoop(bullets, i + 1, sizeBullet(processedBullets, trim(bullets[i])))

\* intelligentBulletProcessing
intelligentBulletProcessing(content) ==
    slice(bulletLoop(contentBullets(content), 1, <<>>), maxTotalBullets)

(***************************************************************************)
(* PPTXService: the presentation and its fallback                          *)
(***************************************************************************)
MaxClock == 2

\* discoveryData, as far as the sections and the file name need it
DiscoveryData == [companyName |-> <<"A", "c", "m", "e", " ", "C", "o", "r", "p">>]

ContentNotAvailable == <<"C", "o", "n", "t", "e", "n", "t", " ", "n", "o", "t", " ", "a", "v", "a", "i", "l", "a", "b", "l", "e">>
NotAvailable == <<"N", "o", "t", " ", "a", "v", "a", "i", "l", "a", "b", "l", "e">>
NoSection == [content |-> <<>>, confidence |-> 0, warnings |-> <<>>]

\* proposal.sections[key], NoSection standing for undefined: its fields
\* give way to the fallback of the || that follows them.
sectionOf(prop, key) ==
    IF HasSection(prop.sections, key)
    THEN prop.sections[CHOOSE i \in 1..Len(prop.sections) :
                               prop.sections[i].key = key]
    ELSE NoSection

\* text || fallback
textOr(text, fallback) == IF text # <<>> THEN text ELSE fallback

\* the template literal ${n || 0}%
percent(n) == NumberText(n) \o <<"%">>

\* Array.prototype.join
RECURSIVE join(_, _)
join(strings, separator) ==
    IF strings = <<>> THEN <<>>
    ELSE IF Len(strings) = 1 THEN strings[1]
    ELSE strings[1] \o separator \o join(Tail(strings), separator)

\* formatWarnings
formatWarnings(warnings) ==
    IF warnings = <<>> THEN <<>>
    ELSE WarningSign \o <<"R", "e", "v", "i", "e", "w", " ", "N", "o", "t", "e", "s", ":", " ">> \o join(warnings, <<";", " ">>)

TemplateHeaders ==
    <<{<<"O", "v", "e", "r", "v", "i", "e", "w">>,
       <<"S", "o", "l", "u", "t", "i", "o", "n", " ", "&", " ", "A", "p", "p", "r", "o", "a", "c", "h">>,
       <<"E", "x", "p", "e", "c", "t", "e", "d", " ", "O", "u", "t", "c", "o", "m", "e", "s">>,
       <<"A", "s", "s", "u", "m", "p", "t", "i", "o", "n", "s">>,
       <<"C", "l", "i", "e", "n", "t", " ", "R", "e", "s", "p", "o", "n", "s", "i", "b", "i", "l", "i", "t", "i", "e", "s">>},
      {<<"P", "r", "o", "b", "l", "e", "m", " ", "S", "t", "a", "t", "e", "m", "e", "n", "t">>,
       <<"N", "e", "x", "t", " ", "S", "t", "e", "p", "s">>}>>

\* formatted.replace(/^(A|B|...)[\s:]/i, ''): a header name at the very start
\* of the text goes, with the one colon or whitespace character after it.
stripTemplateHeader(text, names) ==
    LET hits == {n \in names :
                    /\ Len(text) > Len(n)
                    /\ MatchesAtIgnoreCase(text, toLowerCase(n), 1)
                    /\ text[Len(n) + 1] \in WhitespaceChars \cup {":"}}
    IN  IF hits = {} THEN text
        ELSE From(text, Len(CHOOSE n \in hits : TRUE) + 2)

\* formatContentForTemplate
formatContentForTemplate(content) ==
    join(intelligentBulletProcessing(
             stripTemplateHeader(
                 stripTemplateHeader(
                     removeMarkdown(
                         trim(removeLeadingWhitespace(collapseNewlines(content, 1), 1))),
                     TemplateHeaders[1]),
                 TemplateHeaders[2])),
         <<"\n", "\n">>)

\* The keys of prepareTemplateData that take a field of a section.
ConfidenceTokens ==
    <<[token |-> "OVERVIEW_CONFIDENCE", section |-> "overview"],
      [token |-> "SOLUTION_CONFIDENCE", section |-> "solution_approach"],
      [token |-> "OUTCOMES_CONFIDENCE", section |-> "outcomes"]>>
ContentTokens ==
    <<[token |-> "OVERVIEW_CONTENT", section |-> "overview"],
      [token |-> "SOLUTION_CONTENT", section |-> "solution_approach"],
      [token |-> "OUTCOMES_CONTENT", section |-> "outcomes"],
      [token |-> "NEXT_STEPS", section |-> "next_steps"]>>
WarningsTokens ==
    <<[token |-> "OVERVIEW_WARNINGS", section |-> "overview"],
      [token |-> "SOLUTION_WARNINGS", section |-> "solution_approach"],
      [token |-> "OUTCOMES_WARNINGS", section |-> "outcomes"]>>

\* prepareTemplateData: the object it returns, as its entries. The keys
\* computed from the discovery data alone (date, titles, problem statement,
\* assumptions, responsibilities, context) are left out, the company name
\* excepted.
prepareTemplateData(prop, discoveryData) ==
    <<[token |-> "COMPANY_NAME", value |-> discoveryData.companyName],
      [token |-> "CONFIDENCE_SCORE", value |-> percent(prop.overallConfidence)]>>
    \o [k \in 1..Len(ConfidenceTokens) |->
           [token |-> ConfidenceTokens[k].token,
            value |-> percent(sectionOf(prop, ConfidenceTokens[k].section).confidence)]]
    \o [k \in 1..Len(ContentTokens) |->
           [token |-> ContentTokens[k].token,
            value |-> formatContentForTemplate(
                          textOr(sectionOf(prop, ContentTokens[k].section).content,
                                 ContentNotAvailable))]]
    \o [k \in 1..Len(WarningsTokens) |->
           [token |-> WarningsTokens[k].token,
            value |-> formatWarnings(sectionOf(prop, WarningsTokens[k].section).warnings)]]

\* text.replace(/\s+/g, replacement)
RECURSIVE replaceWhitespaceRuns(_, _, _)
replaceWhitespaceRuns(text, replacement, i) ==
    IF i > Len(text) THEN <<>>
    ELSE IF text[i] \in WhitespaceChars
    THEN replacement
         \o replaceWhitespaceRuns(text, replacement,
                                  i + RunLength(text, WhitespaceChars, i))
    ELSE <<text[i]>> \o replaceWhitespaceRuns(text, replacement, i + 1)

\* text.replace(pat, replacement) for a string pat: the first occurrence
replaceFirst(text, pat, replacement) ==
    IF ~includes(text, pat) THEN text
    ELSE SubSeq(text, 1, Min({i \in 1..Len(text) : MatchesAt(text, pat, i)}) - 1)
         \o replacement
         \o From(text, Min({i \in 1..Len(text) : MatchesAt(text, pat, i)}) + Len(pat))

ToUpperChar(c) ==
    IF \E i \in 1..Len(LowerCaseLetters) : LowerCaseLetters[i] = c
    THEN UpperCaseLetters[CHOOSE i \in 1..Len(LowerCaseLetters) : LowerCaseLetters[i] = c]
    ELSE c

\* String.prototype.toUpperCase
toUpperCase(text) == [i \in 1..Len(text) |-> ToUpperChar(text[i])]

\* path.join(this.outputPath, filename), the timestamp being Date.now()
outputFile(discoveryData, timestamp, ending) ==
    <<"g", "e", "n", "e", "r", "a", "t", "e", "d", "/">> \o <<"p", "r", "o", "p", "o", "s", "a", "l", "-">>
    \o replaceWhitespaceRuns(discoveryData.companyName, <<"-">>, 1)
    \o <<"-">> \o NumberText(timestamp) \o ending

\* A section of the fallback summary: heading, confidence and content.
summarySection(heading, section) ==
    heading \o <<" ", "(", "C", "o", "n", "f", "i", "d", "e", "n", "c", "e", ":", " ">> \o percent(section.confidence) \o <<")", "\n">>
    \o textOr(section.content, NotAvailable) \o <<"\n", "\n">>

\* createFallbackPresentation: summaryContent, the parts computed from the
\* discovery data alone left out, the company name excepted.
summaryContent(prop, discoveryData) ==
    <<"\n", "S", "O", "L", "U", "T", "I", "O", "N", " ", "P", "R", "O", "P", "O", "S", "A", "L", " ", "F", "O", "R", " ">> \o toUpperCase(discoveryData.companyName) \o <<"\n", "\n">>
    \o summarySection(<<"O", "V", "E", "R", "V", "I", "E", "W">>, sectionOf(prop, "overview"))
    \o summarySection(<<"S", "O", "L", "U", "T", "I", "O", "N", " ", "&", " ", "A", "P", "P", "R", "O", "A", "C", "H">>, sectionOf(prop, "solution_approach"))
    \o summarySection(<<"E", "X", "P", "E", "C", "T", "E", "D", " ", "O", "U", "T", "C", "O", "M", "E", "S">>, sectionOf(prop, "outcomes"))
    \o <<"O", "v", "e", "r", "a", "l", "l", " ", "C", "o", "n", "f", "i", "d", "e", "n", "c", "e", " ", "S", "c", "o", "r", "e", ":", " ">> \o percent(prop.overallConfidence) \o <<"\n">>
    \o <<"G", "e", "n", "e", "r", "a", "t", "e", "d", " ", "b", "y", " ", "P", "r", "e", "s", "i", "d", "i", "o", " ", "S", "o", "l", "u", "t", "i", "o", "n", " ", "P", "r", "o", "p", "o", "s", "a", "l", " ", "G", "e", "n", "e", "r", "a", "t", "o", "r", "\n">>

\* createFallbackPresentation: the path it returns and the file it writes
createFallbackPresentation(prop, discoveryData, timestamp) ==
    [path |-> replaceFirst(outputFile(discoveryData, timestamp, <<"-", "f", "a", "l", "l", "b", "a", "c", "k", ".", "p", "p", "t", "x">>),
                           <<".", "p", "p", "t", "x">>, <<".", "t", "x", "t">>),
     file |-> [name |-> replaceFirst(outputFile(discoveryData, timestamp, <<"-", "f", "a", "l", "l", "b", "a", "c", "k", ".", "p", "p", "t", "x">>),
                                     <<".", "p", "p", "t", "x">>, <<".", "t", "x", "t">>),
               kind |-> "text",
               text |-> summaryContent(prop, discoveryData),
               data |-> <<>>,
               rendered |-> FALSE]]

\* What createPresentation meets: the template file is there or not, PizZip
\* and Docxtemplater load it or throw, doc.render() returns or throws.
Environments ==
    {e \in [templateExists : BOOLEAN, templateLoads : BOOLEAN, renderThrows : BOOLEAN] :
        /\ e.templateLoads => e.templateExists
        /\ e.renderThrows => e.templateLoads}

\* createPresentation: the path it returns and the file it writes. The
\* catch around doc.render() logs and goes on: the document is generated
\* and written whether the substitution went through or not.
createPresentation(prop, discoveryData, env, timestamp) ==
    IF ~env.templateExists \/ ~env.templateLoads
    THEN createFallbackPresentation(prop, discoveryData, timestamp)
    ELSE [path |-> outputFile(discoveryData, timestamp, <<".", "p", "p", "t", "x">>),
          file |-> [name |-> outputFile(discoveryData, timestamp, <<".", "p", "p", "t", "x">>),
                    kind |-> "binary",
                    text |-> <<>>,
                    data |-> prepareTemplateData(prop, discoveryData),
                    rendered |-> ~env.renderThrows]]

\* createPresentation(proposal, discoveryData), called with the proposal
\* generateProposal returned
CreatePresentation ==
    /\ proposal # NoCall
    /\ pptxCall = NoCall
    /\ \E env \in Environments, timestamp \in 1..MaxClock :
          /\ pptxCall' = [operation |-> "createPresentation", env |-> env,
                          timestamp |-> timestamp]
          /\ pptxReturn' = createPresentation(proposal, DiscoveryData, env, timestamp)
    /\ UNCHANGED pptxOthers

(***************************************************************************)
(* Specification SpecGen: a batch over the enabled slides, with a provider *)
(* that may fail on any of them                                            *)
(***************************************************************************)
RiskAssessment ==
    <<"R", "i", "s", "k", " ", "A", "s", "s", "e", "s", "s", "m", "e", "n", "t">>

GenSlideAt(i) ==
    {SlideEntry(SlideIds[i], TRUE, Len(SlideIds) + 1 - i, SlideTitles[i], NoRules, NoRules),
     SlideEntry(SlideIds[i], FALSE, Len(SlideIds) + 1 - i, SlideTitles[i], NoRules, NoRules),
     SlideEntry(SlideIds[i], TRUE, Len(SlideIds) + 1 - i, SlideTitles[i],
                Validation(<<Presidio>>, 3, 0, 0, FALSE), Scoring(180, 20, 30, 0, 10)),
     SlideEntry("risk_assessment", TRUE, Len(SlideIds) + 1 - i, RiskAssessment,
                NoRules, NoRules)}

RECURSIVE GenSlideLists(_)
GenSlideLists(n) ==
    IF n = 0 THEN {<<>>}
    ELSE LET shorter == GenSlideLists(n - 1)
         IN  shorter \cup {Append(sl, e) : sl \in {t \in shorter : Len(t) = n - 1},
                                            e \in GenSlideAt(n)}

GenDocs ==
    {ConfigDoc("1.0", Compliance(<<Ensure>>), Formatting(TRUE), slides) :
        slides \in GenSlideLists(MaxSlides)}

GenOutcomes ==
    {ProviderThrows(<<"t", "i", "m", "e", "o", "u", "t">>),
     ProviderReturns(<<>>),
     ProviderReturns(<<"#", "#", " ", "O", "v", "e", "r", "v", "i", "e", "w", "\n", "W", "e", " ", "e", "n", "s", "u", "r", "e", " ", "*", "*", "P", "r", "e", "s", "i", "d", "i", "o", "*", "*", " ", "v", "a", "l", "u", "e">>),
     ProviderReturns(<<"1", ".", " ", "C", "l", "o", "u", "d", " ", "p", "l", "a", "n", "\n", "\n", "\n", "\n", "-", " ", "3", " ", "s", "i", "t", "e", "s">>)}

InitGen ==
    /\ \E d \in GenDocs : LoadedFrom(d)
    /\ IdleGen
    /\ IdlePptx
    /\ IdleRegistry
    /\ IdleSel
    /\ IdleOrch
    /\ IdleNorm
    /\ IdleEngine
    /\ IdleConc
    /\ IdleSse
    /\ IdleWiz

GenerateSlide == ProviderSettles(GenOutcomes)

NextGen ==
    \/ StartBatch \/ InvokeProvider \/ GenerateSlide \/ FinishBatch \/ AssembleProposal
    \/ CreatePresentation

SpecGen == InitGen /\ [][NextGen]_vars

(***************************************************************************)
(* Specification SpecScore: one slide, scored and validated under a range  *)
(* of rules and contents                                                   *)
(***************************************************************************)
RiskyLists == SeqsUpTo({Ensure, Guarantee}, MaxTerms)
KeywordLists == SeqsUpTo({Presidio, Cloud}, MaxKeywords)

ScoreValidations ==
    {NoRules}
    \cup {Validation(kw, 0, 0, 0, FALSE) : kw \in KeywordLists}
    \cup {Validation(kw, 4, 5, 1, TRUE) : kw \in KeywordLists}

ScoreScorings ==
    {NoRules,
     Scoring(0, 20, 30, 0, 0),
     Scoring(171, 100, 120, 30, 10),
     Scoring(300, 0, 0, 0, 20)}

ScoreCompliances == {Missing} \cup {Compliance(r) : r \in RiskyLists}

ScoreDocs ==
    {ConfigDoc("1.0", c, Formatting(on),
               <<SlideEntry(SlideIds[1], TRUE, 1, SlideTitles[1], v, sc)>>) :
        c \in ScoreCompliances, on \in BOOLEAN, v \in ScoreValidations, sc \in ScoreScorings}

ScoreOutcomes ==
    {ProviderThrows(<<"t", "i", "m", "e", "o", "u", "t">>),
     ProviderReturns(<<>>),
     ProviderReturns(<<"W", "e", " ", "e", "n", "s", "u", "r", "e", " ", "a", "n", "d", " ", "g", "u", "a", "r", "a", "n", "t", "e", "e", " ", "u", "p", "t", "i", "m", "e">>),
     ProviderReturns(<<"P", "r", "e", "s", "i", "d", "i", "o", " ", "w", "i", "l", "l", " ", "E", "N", "S", "U", "R", "E", " ", "9", "9", "%", " ", "u", "p", "t", "i", "m", "e">>),
     ProviderReturns(<<"P", "r", "e", "s", "i", "d", "i", "o", " ", "c", "l", "o", "u", "d", " ", "p", "l", "a", "n">>),
     ProviderReturns(<<"T", "h", "e", " ", "p", "r", "o", "p", "o", "s", "e", "d", " ", "p", "l", "a", "n", " ", "h", "e", "l", "p", "s">>),
     ProviderReturns(<<"*", "*", "O", "v", "e", "r", "v", "i", "e", "w", ":", "*", "*", "\n", "-", " ", "P", "r", "e", "s", "i", "d", "i", "o", "\n", "*", " ", "a", "\n", "\n", "\n", "\n", "2", ".", " ", "c", "l", "o", "u", "d", " ", "5">>)}

InitScore ==
    /\ \E d \in ScoreDocs : LoadedFrom(d)
    /\ IdleGen
    /\ IdlePptx
    /\ IdleRegistry
    /\ IdleSel
    /\ IdleOrch
    /\ IdleNorm
    /\ IdleEngine
    /\ IdleConc
    /\ IdleSse
    /\ IdleWiz

ScoreSlide == ProviderSettles(ScoreOutcomes)

NextScore ==
    StartBatch \/ InvokeProvider \/ ScoreSlide \/ FinishBatch \/ AssembleProposal

SpecScore == InitScore /\ [][NextScore]_vars

(***************************************************************************)
(* Specification SpecPptx: PPTXService sizes bullets                       *)
(***************************************************************************)
MaxSegments == 3
MaxLines == 7
MaxLongBullets == 2

WordPool == <<<<"c", "l", "o", "u", "d">>, <<"t", "e", "a", "m", "s">>,
              <<"p", "l", "a", "n", "s">>>>

\* n words of the pool, one space between two
RECURSIVE Words(_)
Words(n) ==
    IF n = 1 THEN WordPool[1]
    ELSE Words(n - 1) \o Space \o WordPool[((n - 1) % Len(WordPool)) + 1]

ShortSegment == Words(6)
LongSegment == Words(16)
SplitSegments == {ShortSegment, LongSegment}
SplitSeparators ==
    {Space \o And \o Space,
     <<",", " ", "w", "i", "t", "h", " ">>,
     <<".", " ">>,
     <<" ", "(", "s", "e", "e", " ", "n", "o", "t", "e", ")", " ">>}

\* the texts of at most n segments, a separator between two
RECURSIVE SplitTexts(_)
SplitTexts(n) ==
    IF n = 1 THEN SplitSegments
    ELSE SplitTexts(n - 1)
         \cup {text \o sep \o seg : text \in SplitTexts(n - 1),
                                    sep \in SplitSeparators, seg \in SplitSegments}

ShortLine == <<"-", " ">> \o Words(2)
LongLine ==
    <<"-", " ">> \o ShortSegment \o Space \o And \o Space \o ShortSegment
    \o Space \o And \o Space \o ShortSegment \o Space \o And \o Space \o ShortSegment
    \o Space \o And \o Space \o ShortSegment

RECURSIVE Lines(_, _)
Lines(line, n) == IF n = 0 THEN <<>> ELSE <<line>> \o Lines(line, n - 1)

RECURSIVE joinLines(_)
joinLines(lines) ==
    IF lines = <<>> THEN <<>>
    ELSE IF Len(lines) = 1 THEN lines[1]
    ELSE lines[1] \o <<"\n">> \o joinLines(Tail(lines))

\* contents of a short lines, b long lines and c short lines
SectionContents ==
    {joinLines(Lines(ShortLine, a) \o Lines(LongLine, b) \o Lines(ShortLine, c)) :
        <<a, b, c>> \in {n \in (0..MaxLines) \X (0..MaxLongBullets) \X (0..MaxLines) :
                            n[1] + n[2] + n[3] \in 1..MaxLines}}

\* The calls: one text for intelligentBulletSplit or one content for
\* intelligentBulletProcessing.
PptxCalls ==
    {[operation |-> "intelligentBulletSplit", text |-> text] :
        text \in SplitTexts(MaxSegments)}
    \cup {[operation |-> "intelligentBulletProcessing", content |-> content] :
        content \in SectionContents}

InitPptx ==
    /\ pptxCall \in PptxCalls
    /\ pptxReturn = NoCall
    /\ IdleGen
    /\ IdleCfg
    /\ IdleRegistry
    /\ IdleSel
    /\ IdleOrch
    /\ IdleNorm
    /\ IdleEngine
    /\ IdleConc
    /\ IdleSse
    /\ IdleWiz

IntelligentBulletSplit ==
    /\ pptxCall.operation = "intelligentBulletSplit"
    /\ pptxReturn = NoCall
    /\ pptxReturn' = [fragments |-> intelligentBulletSplit(pptxCall.text)]
    /\ UNCHANGED <<pptxCall, pptxOthers>>

IntelligentBulletProcessing ==
    /\ pptxCall.operation = "intelligentBulletProcessing"
    /\ pptxReturn = NoCall
    /\ pptxReturn' = [bullets |-> intelligentBulletProcessing(pptxCall.content)]
    /\ UNCHANGED <<pptxCall, pptxOthers>>

NextPptx == IntelligentBulletSplit \/ IntelligentBulletProcessing

SpecPptx == InitPptx /\ [][NextPptx]_vars

(***************************************************************************)
(* Specification SpecReload: a batch in flight while the configuration is  *)
(* reloaded, by reload() or by the watcher                                 *)
(***************************************************************************)
ReloadSlideAt(i) ==
    SlideEntry(SlideIds[i], TRUE, i, SlideTitles[i],
               Validation(<<Presidio>>, 0, 0, 0, FALSE), Scoring(180, 20, 30, 0, 10))

\* Two editions of a document: they differ in the model defaults, the
\* formatting flags and the compliance terms.
ReloadDoc(edited, n) ==
    [ConfigDoc("1.0",
               Compliance(IF edited THEN <<>> ELSE <<Ensure>>),
               Formatting(~edited),
               [i \in 1..n |-> ReloadSlideAt(i)])
        EXCEPT !.defaults = [max_tokens |-> IF edited THEN 1000 ELSE 2000]]

ReloadDocs == {ReloadDoc(edited, n) : edited \in BOOLEAN, n \in 1..MaxSlides}

ReloadFiles == {[exists |-> TRUE, parses |-> TRUE, doc |-> d] : d \in ReloadDocs}

ReloadOutcomes ==
    {ProviderThrows(<<"t", "i", "m", "e", "o", "u", "t">>),
     ProviderReturns(<<"-", " ", "W", "e", " ", "e", "n", "s", "u", "r", "e", " ", "*", "*", "v", "a", "l", "u", "e", "*", "*">>)}

InitReload ==
    /\ configFile \in ReloadFiles
    /\ config = loadConfiguration(NullConfig, configFile)
    /\ everLoaded = LoadSucceeds(configFile)
    /\ isWatching \in BOOLEAN
    /\ slidesAnswer = NoCall
    /\ IdleGen
    /\ IdlePptx
    /\ IdleRegistry
    /\ IdleSel
    /\ IdleOrch
    /\ IdleNorm
    /\ IdleEngine
    /\ IdleConc
    /\ IdleSse
    /\ IdleWiz

FileRewritten == FileChangedTo(ReloadFiles)

ReloadSlide == ProviderSettles(ReloadOutcomes)

NextReload ==
    \/ StartBatch \/ InvokeProvider \/ ReloadSlide \/ FinishBatch \/ AssembleProposal
    \/ FileRewritten \/ Reload

SpecReload == InitReload /\ [][NextReload]_vars

(***************************************************************************)
(* ProposalOrchestrator, ProposalController and the wiring of server.ts    *)
(***************************************************************************)
\* new PPTXService(templatePath?): the document it will substitute into.
NewPPTXService(templatePath) ==
    [templateFile |-> IF templatePath # NoPath THEN templatePath ELSE LegacyTemplatePath]

\* new ProposalGenerator(configPath, templatePath?): a config store on
\* configPath and, when a template path is given, a PPTXService of its own.
NewGenerator(configPath, templatePath) ==
    [configPath |-> configPath,
     templatePath |-> templatePath,
     pptxService |-> IF templatePath # NoPath THEN NewPPTXService(templatePath)
                     ELSE NullGenerator]

\* initializeWithTemplate: the orchestrator's fields afterwards, or threw.
initializeWithTemplate(map, defId, legacy, cur, gen, templateId) ==
    LET sel == selectTemplate(map, defId,
                   [templateId |-> templateId, industry |-> "", projectType |-> ""])
    IN  IF sel.ok
        THEN [threw |-> FALSE,
              currentTemplateId |-> sel.template.id,
              generator |-> NewGenerator(sel.template.configPath, sel.template.templatePath)]
        ELSE IF legacy
        THEN [threw |-> FALSE,
              currentTemplateId |-> cur,
              generator |-> NewGenerator(LegacyConfigPath, NoPath)]
        ELSE [threw |-> TRUE, currentTemplateId |-> cur, generator |-> gen]

\* ProposalOrchestrator.generateProposal up to the delegation: the fields
\* afterwards and the generator that serves the request, or threw.
orchestratorGenerate(map, defId, legacy, cur, gen, req) ==
    LET first ==
            IF req.templateId # "" /\ req.templateId # cur
            THEN initializeWithTemplate(map, defId, legacy, cur, gen, req.templateId)
            ELSE [threw |-> FALSE, currentTemplateId |-> cur, generator |-> gen]
        sel == selectTemplate(map, defId,
                   [templateId |-> "", industry |-> req.industry,
                    projectType |-> req.projectType])
        second ==
            IF first.threw THEN first
            ELSE IF req.templateId = "" /\ first.currentTemplateId = ""
            THEN IF sel.ok
                 THEN initializeWithTemplate(map, defId, legacy, first.currentTemplateId,
                                             first.generator, sel.template.id)
                 ELSE [threw |-> TRUE, currentTemplateId |-> first.currentTemplateId,
                       generator |-> first.generator]
            ELSE first
    IN  IF ~second.threw /\ second.generator = NullGenerator
        THEN [second EXCEPT !.threw = TRUE]
        ELSE second

RequestSet ==
    [templateId : {"", "default", "healthcare", "unknown"},
     industry : {"Healthcare", "Retail"},
     projectType : {"Cloud Migration", "ERP Modernization"}]

\* server.ts: the registry is loaded, the orchestrator constructed with no
\* template id, and a PPTXService constructed with no template path.
InitOrch ==
    /\ \E dirExists \in BOOLEAN, dirs \in SeqsUpTo(DirEntries, MaxDirs), legacy \in BOOLEAN :
          LET r == loadAvailableTemplates(dirExists, dirs, legacy)
              made == initializeWithTemplate(r.templates, r.defaultId, legacy, "",
                                             NullGenerator, "")
          IN  /\ ~made.threw
              /\ availableTemplates = r.templates
              /\ defaultTemplateId = r.defaultId
              /\ legacyExists = legacy
              /\ currentTemplateId = made.currentTemplateId
              /\ generator = made.generator
    /\ pptxService = NewPPTXService(NoPath)
    /\ lastRequest = NoCall
    /\ lastOutcome = NoCall
    /\ IdleSel
    /\ IdleCfg
    /\ IdleGen
    /\ IdlePptx
    /\ IdleNorm
    /\ IdleEngine
    /\ IdleConc
    /\ IdleSse
    /\ IdleWiz

\* ProposalController.generateProposal / generateProposalWithSSE: the
\* orchestrator generates the sections, the controller's PPTXService
\* substitutes them into its document.
HandleGenerate ==
    \E req \in RequestSet :
        LET done == orchestratorGenerate(availableTemplates, defaultTemplateId, legacyExists,
                                         currentTemplateId, generator, req)
        IN  /\ currentTemplateId' = done.currentTemplateId
            /\ generator' = done.generator
            /\ lastRequest' = req
            /\ lastOutcome' =
                  IF done.threw THEN [ok |-> FALSE]
                  ELSE [ok |-> TRUE,
                        configPath |-> done.generator.configPath,
                        document |-> pptxService.templateFile]
            /\ UNCHANGED <<availableTemplates, defaultTemplateId, legacyExists, pptxService,
                           orchOthers>>

NextOrch == HandleGenerate

SpecOrch == InitOrch /\ [][NextOrch]_vars


(***************************************************************************)
(* Claims about selectTemplate (checked under SpecSel)                     *)
(***************************************************************************)
SelReturned == selResult # NoCall /\ selResult.ok
SelByScore ==
    /\ SelReturned
    /\ ~(selCriteria.templateId # "" /\ MapHas(availableTemplates, selCriteria.templateId))

\* The scoring rule as the specification words it (doubled): an exact match
\* counts 6 whether or not "all" is listed too, otherwise "all" counts 2.
ClaimedMatch(listed, wanted) ==
    IF wanted # "" /\ wanted \in listed THEN 6
    ELSE IF wanted # "" /\ "all" \in listed THEN 2
    ELSE 0

ClaimedTotal(t, criteria, defId) ==
    LET score == ClaimedMatch(t.industries, criteria.industry)
                 + ClaimedMatch(t.projectTypes, criteria.projectType)
    IN  IF t.id = defId /\ score = 0 THEN 1 ELSE score

\* C4: with no known explicit id, every template is scored +3 for an exact
\* industry match, otherwise +1 for "all" (same for project type), +0.5 for
\* the default template at score 0, and the returned template has the highest
\* such total.
C4_ReturnsHighestClaimedTotal ==
    SelByScore =>
        \A i \in 1..Len(availableTemplates) :
            ClaimedTotal(selResult.template, selCriteria, defaultTemplateId)
                >= ClaimedTotal(availableTemplates[i], selCriteria, defaultTemplateId)

\* C5: selectTemplate throws "No templates available" exactly when the
\* registry is empty; otherwise it returns a registered template, whatever
\* the criteria.
C5_FatalOnlyWhenRegistryEmpty ==
    selResult # NoCall =>
        /\ (~selResult.ok) <=> (Len(availableTemplates) = 0)
        /\ ~selResult.ok => selResult = NoTemplatesAvailable
        /\ selResult.ok =>
              \E i \in 1..Len(availableTemplates) : availableTemplates[i] = selResult.template

\* Witness for C5: an unregistered explicit id and no industry or project
\* type, answered from a registry of two templates.
C5_Witness ==
    /\ SelReturned
    /\ selCriteria = [templateId |-> "unknown", industry |-> "", projectType |-> ""]
    /\ Len(availableTemplates) = 2

\* C6: a registered explicit template id is returned as is, whatever the
\* industry and project type and whatever the other templates score.
C6_ExplicitRegisteredIdWins ==
    (selResult # NoCall /\ selCriteria.templateId # ""
        /\ MapHas(availableTemplates, selCriteria.templateId)) =>
        /\ selResult.ok
        /\ selResult.template.id = selCriteria.templateId
        /\ selResult.template = MapGet(availableTemplates, selCriteria.templateId)

\* Witness for C6: the explicit id is returned although another registered
\* template scores strictly higher for the supplied industry.
C6_Witness ==
    /\ SelReturned
    /\ selCriteria.templateId = "healthcare"
    /\ selCriteria.industry = "Healthcare"
    /\ selResult.template.id = "healthcare"
    /\ \E i \in 1..Len(availableTemplates) :
          TemplateScore(availableTemplates[i], selCriteria, defaultTemplateId)
              > TemplateScore(selResult.template, selCriteria, defaultTemplateId)

(***************************************************************************)
(* Claims about the orchestration (checked under SpecOrch)                 *)
(***************************************************************************)
\* What TemplateSelector picks for a request's industry and project type.
PickedFor(req) ==
    selectTemplate(availableTemplates, defaultTemplateId,
        [templateId |-> "", industry |-> req.industry, projectType |-> req.projectType])

Generated == lastOutcome # NoCall /\ lastOutcome.ok

\* C7: a request without an explicit template id is generated from the
\* configuration of the template TemplateSelector picks for that request's
\* industry and project type, whatever earlier requests used.
C7_AutoSelectionPerRequest ==
    (Generated /\ lastRequest.templateId = "") =>
        lastOutcome.configPath = PickedFor(lastRequest).template.configPath

\* C8: the document the sections are substituted into belongs to the same
\* template as the configuration the sections were generated from.
C8_DocumentOfSelectedTemplate ==
    Generated =>
        \E i \in 1..Len(availableTemplates) :
            /\ availableTemplates[i].configPath = lastOutcome.configPath
            /\ availableTemplates[i].templatePath = lastOutcome.document

(***************************************************************************)
(* Claims about the configuration store (checked under SpecCfg)            *)
(***************************************************************************)
\* C2: when the initial load fails (file absent, parse error or schema
\* failure) construction does not throw and, until some load succeeds, the
\* store holds a configuration of zero slides and getEnabledSlides() answers
\* the empty list.
C2_FallbackHasNoSlides ==
    ~everLoaded =>
        /\ config # NullConfig
        /\ config.slides = <<>>
        /\ getEnabledSlides(config, configFile) = [threw |-> FALSE, slides |-> <<>>]
        /\ slidesAnswer # NoCall => slidesAnswer = [threw |-> FALSE, slides |-> <<>>]

\* Witness for C2: the file exists and parses but fails the schema, nothing
\* has ever loaded, and getEnabledSlides() has answered.
C2_Witness ==
    /\ ~everLoaded
    /\ configFile.exists /\ configFile.parses
    /\ configFile.doc # NullConfig
    /\ Len(configFile.doc.slides) = 2
    /\ slidesAnswer = [threw |-> FALSE, slides |-> <<>>]

\* C26: once a load has succeeded, a step that leaves a file in place which
\* fails to load (removed, unparseable or invalid), be it reload(), the
\* watcher's reload or any other operation of the store, leaves the
\* configuration as it was, and getEnabledSlides() answers as before.
C26_FailedReloadKeepsConfiguration ==
    [][(everLoaded /\ ~LoadSucceeds(configFile'))
          => /\ config' = config
             /\ getEnabledSlides(config', configFile') = getEnabledSlides(config, configFile)]_vars

\* Witness for C26: a watching store that loaded two slides and then saw
\* the file change to one that fails to load still holds the two slides.
C26_Witness ==
    /\ everLoaded
    /\ isWatching
    /\ ~LoadSucceeds(configFile)
    /\ config # NullConfig
    /\ Len(config.slides) = 2
    /\ slidesAnswer # NoCall

(***************************************************************************)
(* Claims about generation and scoring                                     *)
(***************************************************************************)
Range(seq) == {seq[k] : k \in 1..Len(seq)}

\* The slide and the provider outcome behind the k-th result.
Succeeded(k) == ~genOutcomes[k].throws
Failed(k) == genOutcomes[k].throws

\* C1: in generateAllSlides, whatever the provider does, a slide whose
\* generation throws is recorded with confidence 0, the single warning
\* "Generation failed" and a content naming the error; the batch goes on,
\* every other enabled slide has its normal result, and the returned list
\* holds exactly one result per enabled slide, in order.
C1_FailureRecordedBatchContinues ==
    genPc # "idle" =>
        /\ genSlides = getEnabledSlides(config, configFile).slides
        /\ Len(genResults) = genIndex
        /\ Len(genOutcomes) = genIndex
        /\ genPc = "done" => Len(genResults) = Len(genSlides)
        /\ \A k \in 1..Len(genResults) :
              /\ genResults[k].slideId = genSlides[k].id
              /\ genResults[k].title = genSlides[k].title
              /\ IF Failed(k)
                 THEN /\ genResults[k].confidence = 0
                      /\ genResults[k].warnings = <<GenerationFailed>>
                      /\ genResults[k].content =
                            ErrorGenerating \o genSlides[k].title \o <<":", " ">>
                            \o genOutcomes[k].message
                 ELSE /\ genResults[k].content =
                            processContent(IF genOutcomes[k].text # <<>>
                                           THEN genOutcomes[k].text
                                           ELSE NoContentGenerated,
                                           genSlides[k], getGlobalFormatting(config))
                      /\ GenerationFailed \notin Range(genResults[k].warnings)

\* A returned batch in which a slide failed and a later slide was generated.
C1_Witness ==
    /\ genPc = "done"
    /\ \E j, k \in 1..Len(genResults) : j < k /\ Failed(j) /\ Succeeded(k)

\* C3: every slide result, of a failed or a successful slide, with or
\* without scoring and validation rules, has an integer confidence in 0..100.
C3_ConfidenceInRange ==
    \A k \in 1..Len(genResults) : genResults[k].confidence \in 0..100

\* A scored result whose score before the clamp was below 0.
C3_Witness ==
    \E k \in 1..Len(genResults) :
        /\ Succeeded(k)
        /\ genSlides[k].scoring # NoRules
        /\ MathRound(rawScore(genResults[k].content, genSlides[k],
                              getComplianceTerms(config))) < 0
        /\ genResults[k].confidence = 0

\* The required keywords of the slide behind the k-th result, the entries
\* its content lacks, and the configured penalty (0 when none is).
RequiredKeywords(k) == genSlides[k].validation.required_keywords
AbsentKeywords(k) == AbsentEntries(genResults[k].content, RequiredKeywords(k))
KeywordPenaltyOf(k) == genSlides[k].scoring.penalties.missing_required_keyword

\* The slide of the k-th result with its required keywords taken away.
WithoutKeywords(k) ==
    [genSlides[k] EXCEPT !.validation.required_keywords = <<>>]

HasKeywordRules(k) ==
    /\ Succeeded(k)
    /\ genSlides[k].validation # NoRules

\* C9, as the specification words it: for each required keyword the content
\* lacks, the result carries the warning "Missing required keyword:
\* <keyword>", and the confidence is lower by exactly the missing-keyword
\* penalty per absent keyword than it is without the keyword rule.
C9_AsStated ==
    \A k \in 1..Len(genResults) :
        HasKeywordRules(k) =>
            /\ \A j \in AbsentKeywords(k) :
                  MissingRequiredKeyword \o RequiredKeywords(k)[j]
                      \in Range(genResults[k].warnings)
            /\ genSlides[k].scoring # NoRules =>
                  2 * genResults[k].confidence =
                      2 * calculateConfidence(genResults[k].content, WithoutKeywords(k),
                                              getComplianceTerms(config))
                      - KeywordPenaltyOf(k) * Cardinality(AbsentKeywords(k))

\* C9: for each required keyword the content lacks (and for no other), the
\* result carries the warning sign followed by "Missing required keyword: "
\* and the keyword in double quotes; the score is lowered by the configured
\* penalty once per absent keyword before it is rounded and clamped to
\* 0..100.
C9_PenaltyPerAbsentKeywordBeforeClamp ==
    \A k \in 1..Len(genResults) :
        HasKeywordRules(k) =>
            /\ \A j \in 1..Len(RequiredKeywords(k)) :
                  (j \in AbsentKeywords(k)) <=>
                      (missingKeywordWarning(RequiredKeywords(k)[j])
                          \in Range(genResults[k].warnings))
            /\ genSlides[k].scoring # NoRules =>
                  genResults[k].confidence =
                      Clamp(0, 100,
                            MathRound(rawScore(genResults[k].content, WithoutKeywords(k),
                                               getComplianceTerms(config))
                                      - KeywordPenaltyOf(k)
                                        * Cardinality(AbsentKeywords(k))))

\* Two required keywords are absent and the penalty shows twice in the
\* confidence: base 85, penalty 15, no other deduction, confidence 55.
C9_Witness ==
    \E k \in 1..Len(genResults) :
        /\ HasKeywordRules(k)
        /\ genSlides[k].scoring # NoRules
        /\ KeywordPenaltyOf(k) = 30
        /\ Cardinality(AbsentKeywords(k)) = 2
        /\ rawScore(genResults[k].content, WithoutKeywords(k),
                    getComplianceTerms(config)) = 170
        /\ genResults[k].confidence = 55

\* The configured risky terms that occur in the content of the k-th result.
RiskyTermsFound(k) ==
    {t \in Range(getComplianceTerms(config).risky_terms) :
        includesIgnoreCase(genResults[k].content, t)}

\* The configuration with its risky terms taken away.
WithoutRiskyTerms ==
    [getComplianceTerms(config) EXCEPT !.risky_terms = <<>>]

\* C10: the risky-term penalty is subtracted once per configured risky term
\* that occurs in the content: content with k distinct configured risky
\* terms loses k times the penalty before the clamp.
C10_PenaltyPerRiskyTerm ==
    \A k \in 1..Len(genResults) :
        (Succeeded(k) /\ genSlides[k].scoring # NoRules) =>
            genResults[k].confidence =
                Clamp(0, 100,
                      MathRound(rawScore(genResults[k].content, genSlides[k],
                                         WithoutRiskyTerms)
                                - genSlides[k].scoring.penalties.contains_risky_term
                                  * Cardinality(RiskyTermsFound(k))))

(***************************************************************************)
(* Claims about the assembled proposal and the order of events             *)
(***************************************************************************)
\* C11: the proposal's overallConfidence is the arithmetic mean of the
\* confidences of the slide results generated for the request, rounded to
\* the nearest integer, whatever the enabled slides are.
C11_OverallIsMeanOfSlideResults ==
    (proposal # NoCall /\ Len(genResults) > 0) =>
        proposal.overallConfidence =
            RoundedQuotient(SumConfidence(genResults, 1), Len(genResults))

\* C12: the progress event (title, index, total) of a slide is emitted after
\* the slide has completed: its result, of success or failure, has been
\* recorded and its provider call has returned or thrown.
C12_ProgressAfterSlideCompletes ==
    /\ Len(genProgress) <= Len(genResults)
    /\ Len(genProgress) <= Len(genOutcomes)

\* C13: within one request the provider calls are issued one at a time and
\* in ascending order of the enabled slides: a call starts only after the
\* previous one has returned or thrown, a disabled slide is never sent, and
\* the results are in the same ascending order.
C13_SequentialAscendingCalls ==
    genPc # "idle" =>
        /\ Len(genCalls) - Len(genOutcomes) = (IF genPc = "awaiting" THEN 1 ELSE 0)
        /\ Len(genResults) = Len(genOutcomes)
        /\ \A i, j \in 1..Len(genCalls) : i < j => genCalls[i].order <= genCalls[j].order
        /\ \A k \in 1..Len(genCalls) :
              \E i \in 1..Len(config.slides) :
                  /\ config.slides[i].enabled
                  /\ config.slides[i].id = genCalls[k].slideId
                  /\ config.slides[i].order = genCalls[k].order
        /\ \A k \in 1..Len(genResults) : genResults[k].slideId = genCalls[k].slideId
        /\ genPc = "done" =>
              Len(genCalls) = Cardinality({i \in 1..Len(config.slides) :
                                              config.slides[i].enabled})

\* A returned batch of two calls whose first call was for the slide the
\* document lists second.
C13_Witness ==
    /\ genPc = "done"
    /\ Len(genCalls) = 2
    /\ Len(config.slides) = 2
    /\ genCalls[1].order = config.slides[2].order
    /\ genCalls[1].order < genCalls[2].order

\* The slide list, the model defaults, the formatting flags and the
\* compliance terms the request has used so far are all those of the
\* configuration c.
ReadFromSnapshot(c) ==
    /\ genSlides = SortByOrder(SelectSeq(c.slides, LAMBDA sl : sl.enabled))
    /\ \A k \in 1..Len(genCalls) :
          genCalls[k].max_tokens = OrElse(getDefaults(c).max_tokens, 2000)
    /\ \A k \in 1..Len(genResults) :
          Succeeded(k) => genResults[k] = generateSlide(genSlides[k], c, genOutcomes[k])

\* C14: a request in flight while reload() or the watcher replaces the
\* configuration never sees a mix: everything it uses, for every slide,
\* comes from one single configuration.
C14_OneSnapshotPerRequest ==
    genPc # "idle" => \E c \in ReloadDocs : ReadFromSnapshot(c)

\* C17: for a template whose industry set includes the wildcard "all" and a
\* selection with a concrete industry, the score selectTemplate computes for
\* that template is at least 1 (2 in the doubled scores of the model); so is
\* then the score of the template a score-based selection returns.
C17_WildcardIndustryScoresAtLeastOne ==
    (selCriteria # NoCall /\ selCriteria.industry # "") =>
        \A i \in 1..Len(availableTemplates) :
            "all" \in availableTemplates[i].industries =>
                /\ TemplateScore(availableTemplates[i], selCriteria, defaultTemplateId) >= 2
                /\ SelByScore => selResult.score >= 2

\* A score-based selection with a concrete industry over a registry whose
\* default template lists the wildcard industry.
C17_Witness ==
    /\ selCriteria # NoCall
    /\ selCriteria.industry # ""
    /\ SelByScore
    /\ \E i \in 1..Len(availableTemplates) :
          /\ "all" \in availableTemplates[i].industries
          /\ availableTemplates[i].id = defaultTemplateId
          /\ TemplateScore(availableTemplates[i], selCriteria, defaultTemplateId) = 2

(***************************************************************************)
(* Claims about the sizing of bullets                                      *)
(***************************************************************************)
SplitReturned ==
    /\ pptxCall.operation = "intelligentBulletSplit"
    /\ pptxReturn # NoCall

IsSingleWord(fragment) == \A k \in 1..Len(fragment) : fragment[k] \notin WhitespaceChars

\* C18: a text longer than maxLength given to intelligentBulletSplit comes
\* back in fragments that are each at most maxLength + splitTolerance long,
\* a fragment that is one word longer than maxLength excepted, whichever
\* strategy answered.
C18_FragmentsWithinTolerance ==
    (SplitReturned /\ Len(pptxCall.text) > maxLength)
    => \A k \in 1..Len(pptxReturn.fragments) :
           \/ Len(pptxReturn.fragments[k]) <= maxLength + splitTolerance
           \/ /\ IsSingleWord(pptxReturn.fragments[k])
              /\ Len(pptxReturn.fragments[k]) > maxLength

\* The connector split answered the call.
ConnectorSplitReturned ==
    /\ SplitReturned
    /\ splitStrategy(pptxCall.text) = 1

\* The connector words of a text: the positions after whitespace where one
\* of them stands, whitespace after it.
ConnectorOccurrences(text) ==
    Cardinality({i \in 2..Len(text) :
        text[i - 1] \in WhitespaceChars /\ ConnectorLenAt(text, i) > 0})

BeginsWithConnector(fragment) == ConnectorLenAt(fragment, 1) > 0

EndsWithConnector(fragment) ==
    \E k \in 1..Len(ConnectorWords) :
        /\ Len(fragment) > Len(ConnectorWords[k])
        /\ MatchesAtIgnoreCase(fragment, Space \o ConnectorWords[k],
                               Len(fragment) - Len(ConnectorWords[k]))

RECURSIVE SumOccurrences(_, _)
SumOccurrences(fragments, k) ==
    IF k = 0 THEN 0
    ELSE SumOccurrences(fragments, k - 1)
         + ConnectorOccurrences(Space \o fragments[k] \o Space)

\* C19: when the connector split answers for a text with a connector word, a
\* fragment ends before the connector, the following fragment begins with
\* it, the fragments hold each connector of the text once, and every
\* fragment is at most maxLength + splitTolerance long.
C19_ConnectorStartsNextFragment ==
    (ConnectorSplitReturned /\ ConnectorOccurrences(pptxCall.text) > 0)
    => /\ \A k \in 1..(Len(pptxReturn.fragments) - 1) :
              /\ ~EndsWithConnector(pptxReturn.fragments[k])
              /\ BeginsWithConnector(pptxReturn.fragments[k + 1])
       /\ SumOccurrences(pptxReturn.fragments, Len(pptxReturn.fragments))
              = ConnectorOccurrences(pptxCall.text)
       /\ Longest(pptxReturn.fragments) <= maxLength + splitTolerance

ProcessingReturned ==
    /\ pptxCall.operation = "intelligentBulletProcessing"
    /\ pptxReturn # NoCall

\* What one bullet of the content gives when nothing is capped: the bullet
\* itself, or its fragments when it is longer than maxBulletLength.
UncappedOf(bullet) ==
    IF Len(bullet) <= maxBulletLength THEN <<BulletPrefix \o bullet>>
    ELSE [j \in 1..Len(intelligentBulletSplit(bullet)) |->
              BulletPrefix \o intelligentBulletSplit(bullet)[j]]

\* The uncapped sequence: what the first k bullets of the content give.
RECURSIVE Uncapped(_, _)
Uncapped(bullets, k) ==
    IF k = 0 THEN <<>> ELSE Uncapped(bullets, k - 1) \o UncappedOf(trim(bullets[k]))

UncappedBullets == Uncapped(contentBullets(pptxCall.content), Len(contentBullets(pptxCall.content)))

IsPrefix(s, t) == Len(s) <= Len(t) /\ SubSeq(t, 1, Len(s)) = s

\* C20: intelligentBulletProcessing emits at most maxTotalBullets bullets,
\* split fragments counted, and the bullets it emits are the first ones of
\* the uncapped sequence, in its order: what does not fit is dropped, never
\* merged into an emitted bullet.
C20_EmittedIsCappedPrefix ==
    ProcessingReturned
    => /\ Len(pptxReturn.bullets) <= 6
       /\ IsPrefix(pptxReturn.bullets, UncappedBullets)
       /\ Len(pptxReturn.bullets) = IF Len(UncappedBullets) < 6 THEN Len(UncappedBullets) ELSE 6

\* C20 witness: a long bullet was split and the cap cut its fragments short.
C20_Witness ==
    /\ ProcessingReturned
    /\ Len(UncappedBullets) > maxTotalBullets
    /\ Len(pptxReturn.bullets) = maxTotalBullets
    /\ \E k \in 1..Len(contentBullets(pptxCall.content)) :
           /\ Len(contentBullets(pptxCall.content)[k]) > maxBulletLength
           /\ k < Len(contentBullets(pptxCall.content))
    /\ Len(UncappedOf(contentBullets(pptxCall.content)[1])) = 1

(***************************************************************************)
(* Claims about the presentation                                           *)
(***************************************************************************)
CreatePresentationReturned ==
    /\ pptxCall # NoCall
    /\ pptxCall.operation = "createPresentation"
    /\ pptxReturn # NoCall

\* The sections of the proposal that have content.
SectionsWithContent == {k \in 1..Len(proposal.sections) : proposal.sections[k].content # <<>>}

\* C15: createPresentation returns the path of a file it wrote; when the
\* template file is missing or the substitution throws, that file is the
\* plain-text fallback with the content of the sections, and a binary
\* document is returned only when the substitution went through.
C15_FallbackWheneverSubstitutionFails ==
    CreatePresentationReturned
    => /\ pptxReturn.file.name = pptxReturn.path
       /\ (~pptxCall.env.templateExists \/ pptxCall.env.renderThrows)
              => /\ pptxReturn.file.kind = "text"
                 /\ \A k \in SectionsWithContent :
                        proposal.sections[k].key \in {"overview", "solution_approach", "outcomes"}
                            => includes(pptxReturn.file.text, proposal.sections[k].content)
       /\ pptxReturn.file.kind = "binary" => pptxReturn.file.rendered

\* The template data binds the token to the value.
Binds(data, token, value) ==
    \E k \in 1..Len(data) : data[k].token = token /\ data[k].value = value

\* The template data binds the token to the content, as the slide holds it
\* or as formatContentForTemplate lays it out.
BindsContent(data, token, content) ==
    \/ Binds(data, token, content)
    \/ Binds(data, token, formatContentForTemplate(content))

\* C16: for every slide result, the data handed to the template binds the
\* token that the slide's placeholder_mapping names for its content to that
\* content, and the tokens it names for confidence and warnings, when it
\* names them, to the slide's confidence and warnings.
C16_MappedTokensBound ==
    (CreatePresentationReturned /\ pptxReturn.file.kind = "binary")
    => \A k \in 1..Len(genResults) :
           /\ BindsContent(pptxReturn.file.data, genResults[k].placeholders.content,
                           genResults[k].content)
           /\ genResults[k].placeholders.confidence # ""
                  => Binds(pptxReturn.file.data, genResults[k].placeholders.confidence,
                           percent(genResults[k].confidence))
           /\ genResults[k].placeholders.warnings # ""
                  => Binds(pptxReturn.file.data, genResults[k].placeholders.warnings,
                           formatWarnings(genResults[k].warnings))

(***************************************************************************)
(* Specification SpecNorm: processContent over raw contents of one or more *)
(* lines, under several formatting settings, and over its own output       *)
(***************************************************************************)
MaxNormLines == 2

NormLines ==
    {<<"G", "o", " ", "l", "i", "v", "e">>,
     <<" ", " ", "U+2022", " ", "P", "l", "a", "n">>,
     <<" ", " ", "-", " ", "C", "o", "s", "t">>,
     <<"*", " ", "T", "e", "a", "m">>,
     <<"2", ".", " ", "S", "c", "o", "p", "e">>,
     <<"_", "R", "i", "s", "k", "_">>,
     <<"O", "v", "e", "r", "v", "i", "e", "w", ":", " ", "A", "i", "m">>}

NormSeparators == {<<"\n">>, <<"\n", "\n", "\n", "\n">>}

RECURSIVE NormContents(_)
NormContents(n) ==
    IF n = 1 THEN NormLines
    ELSE NormContents(n - 1)
         \cup {c \o s \o l : c \in NormContents(n - 1), s \in NormSeparators, l \in NormLines}

\* global_formatting as the configuration may set it: every stage on, the
\* bullet character alone, or nothing.
NormFormattings ==
    {Formatting(TRUE),
     [remove_markdown |-> FALSE, remove_section_headers |-> FALSE, bullet_char |-> Bullet],
     Formatting(FALSE)}

NormCalls ==
    {[content |-> c, slideConfig |-> [title |-> SlideTitles[1]], formatting |-> f] :
        c \in NormContents(MaxNormLines), f \in NormFormattings}

InitNorm ==
    /\ normCall \in NormCalls
    /\ normReturn = NoCall
    /\ IdlePptx
    /\ IdleGen
    /\ IdleCfg
    /\ IdleRegistry
    /\ IdleSel
    /\ IdleOrch
    /\ IdleEngine
    /\ IdleConc
    /\ IdleSse
    /\ IdleWiz

\* processContent on the raw content.
ProcessContent ==
    /\ normReturn = NoCall
    /\ normReturn' = [content |-> processContent(normCall.content, normCall.slideConfig,
                                                 normCall.formatting),
                      given |-> normCall.content,
                      passes |-> 1]
    /\ UNCHANGED <<normCall, normOthers>>

\* processContent on the content it returned.
ProcessReturned ==
    /\ normReturn # NoCall
    /\ normReturn.passes = 1
    /\ normReturn' = [content |-> processContent(normReturn.content, normCall.slideConfig,
                                                 normCall.formatting),
                      given |-> normReturn.content,
                      passes |-> 2]
    /\ UNCHANGED <<normCall, normOthers>>

NextNorm == ProcessContent \/ ProcessReturned

SpecNorm == InitNorm /\ [][NextNorm]_vars

(***************************************************************************)
(* Claims about the normalization of content (checked under SpecNorm)      *)
(***************************************************************************)
\* Position i holds the first visible character of its line.
LineLead(text, i) ==
    /\ text[i] \notin WhitespaceChars
    /\ \E j \in 0..(i - 1) :
          /\ j = 0 \/ text[j] \in LineTerminators
          /\ \A k \in (j + 1)..(i - 1) : text[k] \in WhitespaceChars

\* A "-", a "*" or a number followed by a dot stands at position i.
PlainBulletAt(text, i) ==
    \/ text[i] \in {"-", "*"}
    \/ /\ text[i] \in DigitChars
       /\ i + RunLength(text, DigitChars, i) <= Len(text)
       /\ text[i + RunLength(text, DigitChars, i)] = "."

\* Every bullet of the text is the canonical one: no line, indented or not,
\* leads with another glyph or with a number and a dot.
CanonicalBullets(text) ==
    \A i \in 1..Len(text) :
        LineLead(text, i) => ~PlainBulletAt(text, i) /\ text[i] # "U+00B7"

NoMarkup(text) == removeMarkdown(text) = text

\* The visible text does not open with the slide's title or a known header.
NoHeaderEcho(text, slideTitle) ==
    removeSectionHeaders(trimStart(text), slideTitle) = trimStart(text)

AllStagesEnabled(formatting) ==
    /\ formatting.remove_markdown
    /\ formatting.remove_section_headers
    /\ formatting.bullet_char # <<>>

\* The raw content of the call is content the claim C21 speaks of.
AlreadyNormalized ==
    /\ AllStagesEnabled(normCall.formatting)
    /\ CanonicalBullets(normCall.content)
    /\ NoMarkup(normCall.content)
    /\ NoHeaderEcho(normCall.content, normCall.slideConfig.title)

NormalizedOnce == normReturn # NoCall /\ normReturn.passes = 1
NormalizedTwice == normReturn # NoCall /\ normReturn.passes = 2

\* C21: with every stage enabled, for content with canonical bullets, no
\* markup and no header echo, processContent applied to its own output
\* returns that output again.
C21_NormalizeIdempotent ==
    (NormalizedTwice /\ AlreadyNormalized) => normReturn.content = normReturn.given

\* Witness of C21: such a content, which the first pass changed (its blank
\* lines and its indentation), has gone through the second pass.
C21_Witness ==
    /\ NormalizedTwice
    /\ AlreadyNormalized
    /\ normReturn.given # normCall.content
    /\ includes(normCall.content, <<"\n", "\n", "\n">>)
    /\ includes(normCall.content, Bullet)

\* C22: with a bullet character configured, no line of the content that
\* processContent returns begins with "-", "*" or a number and a dot.
C22_NoPlainBulletLeft ==
    (NormalizedOnce /\ normCall.formatting.bullet_char # <<>>)
    => \A i \in 1..Len(normReturn.content) :
           AtLineStart(normReturn.content, i) => ~PlainBulletAt(normReturn.content, i)

\* Position i of the text opens a run of three or more newlines that has
\* visible text before it and after it.
ParagraphBreakAt(text, i) ==
    /\ i > 1
    /\ text[i - 1] \notin WhitespaceChars
    /\ RunLength(text, {"\n"}, i) >= 3
    /\ i + RunLength(text, {"\n"}, i) <= Len(text)
    /\ text[i + RunLength(text, {"\n"}, i)] \notin WhitespaceChars

\* The number of runs of exactly two newlines between visible characters.
BlankLines(text) ==
    Cardinality({i \in 2..Len(text) :
        /\ text[i - 1] \notin WhitespaceChars
        /\ RunLength(text, {"\n"}, i) = 2
        /\ i + 2 <= Len(text)
        /\ text[i + 2] \notin WhitespaceChars})

\* The clean-up of whitespace is the whole of processContent.
WhitespaceStageOnly(formatting) ==
    /\ ~formatting.remove_markdown
    /\ ~formatting.remove_section_headers
    /\ formatting.bullet_char = <<>>

\* C23: the whitespace stage leaves, for every run of three or more
\* newlines of the text, exactly two newlines (one blank line), and no
\* line of its result begins with whitespace.
C23_BlankLineKept ==
    (NormalizedOnce /\ WhitespaceStageOnly(normCall.formatting))
    => /\ BlankLines(normReturn.content)
              >= Cardinality({i \in 1..Len(normCall.content) :
                                  ParagraphBreakAt(normCall.content, i)})
       /\ ~includes(normReturn.content, <<"\n", "\n", "\n">>)
       /\ \A i \in 1..Len(normReturn.content) :
              AtLineStart(normReturn.content, i)
                  => normReturn.content[i] \notin {" ", "\t"}

(***************************************************************************)
(* PromptTemplateEngine                                                    *)
(*                                                                         *)
(* An object is a sequence of [key, value] entries in insertion order; a   *)
(* value is [string |-> text], [boolean |-> b] or [object |-> entries].    *)
(* Keys are texts.                                                         *)
(***************************************************************************)
substringLimit == 1500

String(text) == [string |-> text]
Object(entries) == [object |-> entries]
IsObject(value) == DOMAIN value = {"object"}

HasKey(entries, key) == \E k \in 1..Len(entries) : entries[k].key = key
Get(entries, key) == entries[CHOOSE k \in 1..Len(entries) : entries[k].key = key].value

\* { ...target, ...source }: a key of the source replaces the value of the
\* same key where it stands, a new key goes to the end.
RECURSIVE spread(_, _)
spread(target, source) ==
    IF source = <<>> THEN target
    ELSE spread(IF HasKey(target, Head(source).key)
                THEN [k \in 1..Len(target) |->
                         IF target[k].key = Head(source).key THEN Head(source) ELSE target[k]]
                ELSE Append(target, Head(source)),
                Tail(source))

\* String.prototype.substring(0, n)
substring(text, n) == SubSeq(text, 1, IF Len(text) < n THEN Len(text) ELSE n)

\* createContext
createContext(discoveryData, documentContext, additionalVariables) ==
    spread(<<[key |-> <<"c", "o", "m", "p", "a", "n", "y", "N", "a", "m", "e">>, value |-> String(discoveryData.companyName)],
             [key |-> <<"i", "n", "d", "u", "s", "t", "r", "y">>, value |-> String(textOr(discoveryData.industry, <<"T", "e", "c", "h", "n", "o", "l", "o", "g", "y">>))],
             [key |-> <<"b", "u", "s", "i", "n", "e", "s", "s", "C", "h", "a", "l", "l", "e", "n", "g", "e">>, value |-> String(textOr(discoveryData.businessChallenge, <<"B", "u", "s", "i", "n", "e", "s", "s", " ", "o", "p", "t", "i", "m", "i", "z", "a", "t", "i", "o", "n">>))],
             [key |-> <<"t", "e", "c", "h", "S", "t", "a", "c", "k">>, value |-> String(textOr(discoveryData.techStack, <<"N", "o", "t", " ", "s", "p", "e", "c", "i", "f", "i", "e", "d">>))],
             [key |-> <<"p", "r", "o", "j", "e", "c", "t", "T", "y", "p", "e">>, value |-> String(discoveryData.projectType)],
             [key |-> <<"d", "u", "r", "a", "t", "i", "o", "n">>, value |-> String(textOr(discoveryData.duration, <<"T", "B", "D">>))],
             [key |-> <<"b", "u", "d", "g", "e", "t", "R", "a", "n", "g", "e">>, value |-> String(textOr(discoveryData.budgetRange, <<"T", "B", "D">>))],
             [key |-> <<"s", "u", "c", "c", "e", "s", "s", "C", "r", "i", "t", "e", "r", "i", "a">>, value |-> String(textOr(discoveryData.successCriteria, <<"N", "o", "t", " ", "s", "p", "e", "c", "i", "f", "i", "e", "d">>))],
             [key |-> <<"d", "o", "c", "u", "m", "e", "n", "t", "C", "o", "n", "t", "e", "x", "t">>,
              value |-> String(IF documentContext # <<>>
                               THEN substring(documentContext, substringLimit)
                               ELSE <<>>)]>>,
           additionalVariables)

\* Length of the run of characters other than c that starts at position i.
RECURSIVE RunLengthOther(_, _, _)
RunLengthOther(text, c, i) ==
    IF i <= Len(text) /\ text[i] # c THEN 1 + RunLengthOther(text, c, i + 1) ELSE 0

\* The loop over variablePattern.exec(template) with /\{\{([^}]+)\}\}/g:
\* match[1] of the successive matches from position i on.
RECURSIVE variableMatches(_, _)
variableMatches(template, i) ==
    IF i > Len(template) THEN <<>>
    ELSE IF /\ MatchesAt(template, <<"{", "{">>, i)
            /\ RunLengthOther(template, "}", i + 2) >= 1
            /\ MatchesAt(template, <<"}", "}">>, i + 2 + RunLengthOther(template, "}", i + 2))
    THEN <<SubSeq(template, i + 2, i + 1 + RunLengthOther(template, "}", i + 2))>>
         \o variableMatches(template, i + 4 + RunLengthOther(template, "}", i + 2))
    ELSE variableMatches(template, i + 1)

\* path.split('.')
RECURSIVE splitPath(_)
splitPath(path) ==
    IF RunLengthOther(path, ".", 1) = Len(path) THEN <<path>>
    ELSE <<SubSeq(path, 1, RunLengthOther(path, ".", 1))>>
         \o splitPath(From(path, RunLengthOther(path, ".", 1) + 2))

\* The loop of hasNestedProperty over the keys, current being a value that
\* is neither null nor undefined: "true", "false", or "TypeError" when the
\* in operator meets a string or a boolean (keys of Object.prototype apart).
RECURSIVE keysLoop(_, _)
keysLoop(current, keys) ==
    IF keys = <<>> THEN "true"
    ELSE IF ~IsObject(current) THEN "TypeError"
    ELSE IF ~HasKey(current.object, Head(keys)) THEN "false"
    ELSE keysLoop(Get(current.object, Head(keys)), Tail(keys))

\* hasNestedProperty
hasNestedProperty(obj, path) == keysLoop(Object(obj), splitPath(path))

startsWith(text, c) == text # <<>> /\ text[1] = c

\* The body of the while loop of validateContext for the matches from the
\* k-th on: the names pushed to missingVariables, or what it threw.
RECURSIVE validateLoop(_, _, _, _)
validateLoop(matches, k, context, missingVariables) ==
    IF k > Len(matches) THEN [threw |-> "", missingVariables |-> missingVariables]
    ELSE IF trim(matches[k]) = <<>> THEN validateLoop(matches, k + 1, context, missingVariables)
    ELSE IF startsWith(trim(matches[k]), "#") \/ startsWith(trim(matches[k]), "/")
    THEN validateLoop(matches, k + 1, context, missingVariables)
    ELSE IF hasNestedProperty(context, trim(matches[k])) = "TypeError"
    THEN [threw |-> "TypeError", missingVariables |-> missingVariables]
    ELSE IF hasNestedProperty(context, trim(matches[k])) = "false"
    THEN validateLoop(matches, k + 1, context, Append(missingVariables, trim(matches[k])))
    ELSE validateLoop(matches, k + 1, context, missingVariables)

\* validateContext
validateContext(template, context) ==
    validateLoop(variableMatches(template, 1), 1, context, <<>>)

CreateContext ==
    /\ engineCall # NoCall
    /\ engineCall.operation = "createContext"
    /\ engineReturn = NoCall
    /\ engineReturn' = [context |-> createContext(engineCall.discoveryData,
                                                  engineCall.documentContext,
                                                  engineCall.additionalVariables)]
    /\ UNCHANGED <<engineCall, engineOthers>>

ValidateContext ==
    /\ engineCall # NoCall
    /\ engineCall.operation = "validateContext"
    /\ engineReturn = NoCall
    /\ engineReturn' = validateContext(engineCall.template, engineCall.context)
    /\ UNCHANGED <<engineCall, engineOthers>>

(***************************************************************************)
(* Specification SpecEngine: contexts made from intake data, attachment    *)
(* text and custom variables, and templates validated against them         *)
(***************************************************************************)
MaxTemplateParts == 2

IntakeData(industry) ==
    [companyName |-> <<"A", "c", "m", "e">>, industry |-> industry,
     businessChallenge |-> <<"L", "e", "g", "a", "c", "y", " ", "s", "y", "s", "t", "e", "m", "s">>, techStack |-> <<>>,
     projectType |-> <<"M", "i", "g", "r", "a", "t", "i", "o", "n">>, duration |-> <<>>, budgetRange |-> <<>>,
     successCriteria |-> <<>>]

Intakes == {IntakeData(<<>>), IntakeData(<<"R", "e", "t", "a", "i", "l">>)}

\* An attachment text of n characters.
AttachmentText(n) == [i \in 1..n |-> LowerCaseLetters[(i % 26) + 1]]

AttachmentTexts ==
    {AttachmentText(n) : n \in {0, 12, substringLimit, substringLimit + 1, 2 * substringLimit}}

\* prompt.variables of a slide: none, one of its own, nested ones, and one
\* that bears the name of a field of the context.
VariableSets ==
    {<<>>,
     <<[key |-> <<"p", "i", "l", "o", "t">>, value |-> [boolean |-> TRUE]],
       [key |-> <<"t", "e", "a", "m">>, value |-> Object(<<[key |-> <<"r", "e", "g", "i", "o", "n">>, value |-> String(<<"e", "a", "s", "t">>)]>>)]>>,
     <<[key |-> <<"d", "o", "c", "u", "m", "e", "n", "t", "C", "o", "n", "t", "e", "x", "t">>, value |-> String(AttachmentText(substringLimit + 12))]>>,
     <<[key |-> <<"i", "n", "d", "u", "s", "t", "r", "y">>, value |-> String(<<"E", "n", "e", "r", "g", "y">>)]>>}

TemplateParts ==
    {<<"P", "l", "a", "n", " ", "f", "o", "r", " ">>,
     <<"{", "{", "c", "o", "m", "p", "a", "n", "y", "N", "a", "m", "e", "}", "}">>,
     <<"{", "{", " ", "i", "n", "d", "u", "s", "t", "r", "y", " ", "}", "}">>,
     <<"{", "{", "t", "i", "m", "e", "l", "i", "n", "e", "}", "}">>,
     <<"{", "{", "#", "p", "i", "l", "o", "t", "}", "}">>,
     <<"{", "{", "/", "p", "i", "l", "o", "t", "}", "}">>,
     <<"{", "{", "^", "p", "i", "l", "o", "t", "}", "}">>,
     <<"{", "{", "t", "e", "a", "m", ".", "r", "e", "g", "i", "o", "n", "}", "}">>,
     <<"{", "{", "t", "e", "a", "m", ".", "s", "i", "z", "e", "}", "}">>,
     <<"{", "{", "c", "o", "m", "p", "a", "n", "y", "N", "a", "m", "e", ".", "l", "e", "n", "g", "t", "h", "}", "}">>}

RECURSIVE Templates(_)
Templates(n) ==
    IF n = 1 THEN TemplateParts
    ELSE Templates(n - 1) \cup {t \o p : t \in Templates(n - 1), p \in TemplateParts}

EngineCalls ==
    {[operation |-> "createContext", discoveryData |-> d, documentContext |-> a,
      additionalVariables |-> v] :
        d \in Intakes, a \in AttachmentTexts, v \in VariableSets}
    \cup {[operation |-> "validateContext", template |-> t,
           context |-> createContext(IntakeData(<<>>), <<>>, v)] :
             t \in Templates(MaxTemplateParts), v \in VariableSets}

InitEngine ==
    /\ engineCall \in EngineCalls
    /\ engineReturn = NoCall
    /\ IdleNorm
    /\ IdlePptx
    /\ IdleGen
    /\ IdleCfg
    /\ IdleRegistry
    /\ IdleSel
    /\ IdleOrch
    /\ IdleConc
    /\ IdleSse
    /\ IdleWiz

NextEngine == CreateContext \/ ValidateContext

SpecEngine == InitEngine /\ [][NextEngine]_vars

(***************************************************************************)
(* Claims about the prompt template engine (checked under SpecEngine)      *)
(***************************************************************************)
ValidateContextReturned ==
    /\ engineCall # NoCall
    /\ engineCall.operation = "validateContext"
    /\ engineReturn # NoCall

\* The names between the braces of the tags of the template.
TagNames(template) ==
    {trim(variableMatches(template, 1)[k]) : k \in 1..Len(variableMatches(template, 1))}

\* The tag opens, inverts or closes a section.
IsSectionTag(name) == name # <<>> /\ name[1] \in {"#", "^", "/"}

\* The keys lead, one step at a time, from the value to a value.
RECURSIVE Resolves(_, _)
Resolves(value, keys) ==
    \/ keys = <<>>
    \/ /\ IsObject(value)
       /\ HasKey(value.object, Head(keys))
       /\ Resolves(Get(value.object, Head(keys)), Tail(keys))

ResolvesIn(context, name) == Resolves(Object(context), splitPath(name))

\* The variables the template refers to that the context does not resolve.
UnresolvedNames(template, context) ==
    {name \in TagNames(template) : ~IsSectionTag(name) /\ ~ResolvesIn(context, name)}

Reported(returned) == {returned.missingVariables[k] : k \in 1..Len(returned.missingVariables)}

\* C24: validateContext returns exactly the variables of the template that
\* do not resolve in the context, dotted paths taken step by step: it
\* reports no name that resolves and no section tag ({{#k}}, {{^k}},
\* {{/k}}), and it leaves out no variable that fails to resolve.
C24_ExactlyTheUnresolved ==
    ValidateContextReturned
    => /\ engineReturn.threw = ""
       /\ Reported(engineReturn) = UnresolvedNames(engineCall.template, engineCall.context)

CreateContextReturned ==
    /\ engineCall # NoCall
    /\ engineCall.operation = "createContext"
    /\ engineReturn # NoCall

\* C25: the documentContext of every context createContext returns is a
\* text of at most 1500 characters that is a prefix of the attachment text
\* handed in, whatever the custom variables of the slide are.
C25_ExcerptIsBoundedPrefix ==
    CreateContextReturned
    => /\ HasKey(engineReturn.context, <<"d", "o", "c", "u", "m", "e", "n", "t", "C", "o", "n", "t", "e", "x", "t">>)
       /\ Len(Get(engineReturn.context, <<"d", "o", "c", "u", "m", "e", "n", "t", "C", "o", "n", "t", "e", "x", "t">>).string) <= 1500
       /\ IsPrefix(Get(engineReturn.context, <<"d", "o", "c", "u", "m", "e", "n", "t", "C", "o", "n", "t", "e", "x", "t">>).string, engineCall.documentContext)

(***************************************************************************)
(* Specification SpecCallback: the batch of SpecGen with a progress        *)
(* callback that may throw                                                 *)
(***************************************************************************)
CallbackThrows(message) == [throws |-> TRUE, message |-> message, callback |-> TRUE]

\* An iteration of the loop in which progressCallback throws: the catch
\* block pushes the error result and the loop goes on to the next slide.
ProgressCallbackThrows ==
    /\ genPc = "running"
    /\ genIndex < Len(genSlides)
    /\ LET slideConfig == genSlides[genIndex + 1]
           thrown == CallbackThrows(<<"s", "t", "r", "e", "a", "m", " ", "c", "l", "o", "s", "e", "d">>)
       IN  /\ genProgress' = Append(genProgress,
                                   <<slideConfig.title, genIndex + 1, Len(genSlides)>>)
           /\ genResults' = Append(genResults, slideOutcome(slideConfig, config, thrown))
           /\ genOutcomes' = Append(genOutcomes, thrown)
    /\ genIndex' = genIndex + 1
    /\ UNCHANGED <<genPc, genSlides, genCalls, proposal, config, everLoaded, genOthers>>

NextCallback ==
    \/ StartBatch \/ InvokeProvider \/ GenerateSlide \/ ProgressCallbackThrows \/ FinishBatch

SpecCallback == InitGen /\ [][NextCallback]_vars

\* C27: when generateAllSlides has returned, the provider has been invoked
\* exactly once for each enabled slide, in their order, whatever the
\* provider returned or threw and whatever the progress callback did.
C27_OneProviderCallPerSlide ==
    genPc = "done"
    => /\ Len(genCalls) = Len(genSlides)
       /\ \A k \in 1..Len(genCalls) : genCalls[k].slideId = genSlides[k].id

(***************************************************************************)
(* Specification SpecConc: two generateProposal requests with explicit     *)
(* template ids overlap on the orchestrator that server.ts constructs      *)
(***************************************************************************)
\* The template directories of this specification: both templates match
\* every industry and project type, so that only the explicit id selects.
ConcDirEntries ==
    {s \in TemplateSections : s.industries = {"all"} /\ s.project_types = {"all"}}
    \cup {NoConfig}

\* File system: the ids of the enabled slides of the configuration at a
\* path, in ascending order. Every configuration has its own list.
EnabledSlideIdsAt(configPath) ==
    IF configPath = LegacyConfigPath THEN <<"overview">>
    ELSE IF configPath[3] = DirNames[1] THEN <<"overview", "outcomes">>
    ELSE IF configPath[3] = DirNames[2] THEN <<"outcomes", "next_steps">>
    ELSE <<"next_steps", "overview">>

ExplicitIds == {"default", "healthcare", "legacy"}

NewRequest(templateId) ==
    [templateId |-> templateId, pc |-> "new", instance |-> NullGenerator,
     slides |-> <<>>, index |-> 0, results |-> <<>>]

\* Mutant: the methods of the generator act on whatever generator the
\* orchestrator holds at the time.
thisGenerator_Current(request, held) == held

\* `this` in the methods of the generator serving a request: the instance
\* on which the orchestrator called generateProposal.
thisGenerator(request, held) == request.instance

InitConc ==
    /\ \E dirExists \in BOOLEAN, dirs \in SeqsUpTo(ConcDirEntries, MaxDirs), legacy \in BOOLEAN :
          LET r == loadAvailableTemplates(dirExists, dirs, legacy)
              made == initializeWithTemplate(r.templates, r.defaultId, legacy, "",
                                             NullGenerator, "")
          IN  /\ ~made.threw
              /\ availableTemplates = r.templates
              /\ defaultTemplateId = r.defaultId
              /\ legacyExists = legacy
              /\ currentTemplateId = made.currentTemplateId
              /\ generator = made.generator
    /\ pptxService = NewPPTXService(NoPath)
    /\ lastRequest = NoCall
    /\ lastOutcome = NoCall
    /\ \E a, b \in ExplicitIds :
          /\ a # b
          /\ requests = <<NewRequest(a), NewRequest(b)>>
    /\ providerLog = <<>>
    /\ IdleSel
    /\ IdleCfg
    /\ IdleGen
    /\ IdlePptx
    /\ IdleNorm
    /\ IdleEngine
    /\ IdleSse
    /\ IdleWiz

concUnchanged ==
    <<availableTemplates, defaultTemplateId, legacyExists, pptxService, lastRequest,
      lastOutcome, selCriteria, selResult, cfgVars, genVars, pptxVars, normVars, engineVars,
      sseVars, wizVars>>

\* generateProposal of the orchestrator up to the first await: the template
\* is switched when another one is asked for, the call is delegated to the
\* generator held then, and generateAllSlides takes its list of slides.
BeginRequest ==
    \E r \in 1..Len(requests) :
        /\ requests[r].pc = "new"
        /\ LET done == orchestratorGenerate(availableTemplates, defaultTemplateId, legacyExists,
                                            currentTemplateId, generator,
                                            [templateId |-> requests[r].templateId,
                                             industry |-> "", projectType |-> ""])
           IN  /\ currentTemplateId' = done.currentTemplateId
               /\ generator' = done.generator
               /\ requests' =
                     [requests EXCEPT ![r] =
                         IF done.threw THEN [@ EXCEPT !.pc = "failed"]
                         ELSE [@ EXCEPT !.pc = "running",
                                        !.instance = done.generator,
                                        !.slides = EnabledSlideIdsAt(done.generator.configPath)]]
        /\ UNCHANGED <<providerLog, concUnchanged>>

\* An iteration of the loop of generateAllSlides up to the await: the
\* provider is called with the settings of the generator's configuration.
CallProvider ==
    \E r \in 1..Len(requests) :
        /\ requests[r].pc = "running"
        /\ requests[r].index < Len(requests[r].slides)
        /\ providerLog' = Append(providerLog,
               [request |-> r,
                slideId |-> requests[r].slides[requests[r].index + 1],
                configPath |-> thisGenerator(requests[r], generator).configPath])
        /\ requests' = [requests EXCEPT ![r].pc = "awaiting"]
        /\ UNCHANGED <<currentTemplateId, generator, concUnchanged>>

\* The provider settles: the result is formatted and scored under the
\* generator's configuration and pushed.
ProviderSettled ==
    \E r \in 1..Len(requests) :
        /\ requests[r].pc = "awaiting"
        /\ requests' =
              [requests EXCEPT
                  ![r].pc = "running",
                  ![r].index = @ + 1,
                  ![r].results = Append(@,
                      [slideId |-> requests[r].slides[requests[r].index + 1],
                       configPath |-> thisGenerator(requests[r], generator).configPath])]
        /\ UNCHANGED <<currentTemplateId, generator, providerLog, concUnchanged>>

\* The loop is over and the proposal is returned.
EndRequest ==
    \E r \in 1..Len(requests) :
        /\ requests[r].pc = "running"
        /\ requests[r].index = Len(requests[r].slides)
        /\ requests' = [requests EXCEPT ![r].pc = "done"]
        /\ UNCHANGED <<currentTemplateId, generator, providerLog, concUnchanged>>

NextConc == BeginRequest \/ CallProvider \/ ProviderSettled \/ EndRequest

SpecConc == InitConc /\ [][NextConc]_vars

\* The configuration of the template a request asked for.
AskedConfigPath(request) == MapGet(availableTemplates, request.templateId).configPath

\* C28: of two overlapping requests with different explicit template ids,
\* each has its list of slides, every provider call and every result from
\* the configuration of the template it asked for, whenever that template
\* is registered and however their provider calls interleave.
C28_EachRequestFromItsTemplate ==
    \A r \in 1..Len(requests) :
        (requests[r].pc \in {"running", "awaiting", "done"}
         /\ MapHas(availableTemplates, requests[r].templateId))
        => /\ requests[r].slides = EnabledSlideIdsAt(AskedConfigPath(requests[r]))
           /\ \A k \in 1..Len(requests[r].results) :
                  requests[r].results[k].configPath = AskedConfigPath(requests[r])
           /\ \A k \in 1..Len(providerLog) :
                  providerLog[k].request = r
                      => providerLog[k].configPath = AskedConfigPath(requests[r])

\* Witness for C28: both requests are done, both asked for a registered
\* template, the two templates have configurations of their own, and the
\* provider calls of the two requests alternated.
C28_Witness ==
    /\ Len(requests) = 2
    /\ \A r \in 1..2 :
          /\ requests[r].pc = "done"
          /\ MapHas(availableTemplates, requests[r].templateId)
    /\ AskedConfigPath(requests[1]) # AskedConfigPath(requests[2])
    /\ Len(providerLog) = 4
    /\ providerLog[1].request = 1
    /\ providerLog[2].request = 2
    /\ providerLog[3].request = 1
    /\ providerLog[4].request = 2

(***************************************************************************)
(* ProposalController.generateProposalWithSSE, from await to await         *)
(***************************************************************************)
\* sendEvent('progress', { step, message, progress })
ProgressEvent(step, progress) == [event |-> "progress", step |-> step, progress |-> progress]

\* Mutant: the slides are spread over the whole scale.
slideProgress_FullScale(slideNumber, totalSlides) ==
    RoundedQuotient(slideNumber * 100, totalSlides)

\* 20 + Math.round((slideNumber / totalSlides) * 65)
slideProgress(slideNumber, totalSlides) ==
    20 + RoundedQuotient(slideNumber * 65, totalSlides)

\* sendEvent('slide', { slideTitle, slideNumber, totalSlides, progress })
SlideEvent(slideNumber, totalSlides) ==
    [event |-> "slide", step |-> "", slideNumber |-> slideNumber,
     progress |-> slideProgress(slideNumber, totalSlides)]

\* sendEvent('complete', { proposal, downloadUrl, progress: 100 })
CompleteEvent == [event |-> "complete", step |-> "", progress |-> 100]

\* The event the catch block writes: it carries the message only.
ErrorEvent == [event |-> "error", step |-> ""]

\* The catch block: the error event is written and the response ended.
Caught ==
    /\ sseStream' = Append(sseStream, ErrorEvent)
    /\ sseEnded' = TRUE
    /\ ssePc' = "closed"
    /\ UNCHANGED <<sseRequest, sseCount>>

\* The handler up to its first await: a request without discoveryData
\* throws at line 33; otherwise 'preparing' is sent, then 'processing' when
\* files came with the request, or 'generating' when none did.
Prepare ==
    /\ ssePc = "start"
    /\ IF ~sseRequest.hasDiscoveryData THEN Caught
       ELSE IF sseRequest.files > 0
       THEN /\ sseStream' = sseStream \o <<ProgressEvent("preparing", 10),
                                          ProgressEvent("processing", 15)>>
            /\ ssePc' = "processing"
            /\ UNCHANGED <<sseRequest, sseCount, sseEnded>>
       ELSE /\ sseStream' = sseStream \o <<ProgressEvent("preparing", 10),
                                          ProgressEvent("generating", 20)>>
            /\ ssePc' = "generating"
            /\ UNCHANGED <<sseRequest, sseCount, sseEnded>>
    /\ UNCHANGED sseOthers

\* extractContent settles for one file (a failure is logged and passed
\* over); after the last file 'generating' is sent.
ExtractContent ==
    /\ ssePc = "processing"
    /\ IF sseCount + 1 < sseRequest.files
       THEN /\ sseCount' = sseCount + 1
            /\ UNCHANGED <<ssePc, sseStream>>
       ELSE /\ sseCount' = 0
            /\ ssePc' = "generating"
            /\ sseStream' = Append(sseStream, ProgressEvent("generating", 20))
    /\ UNCHANGED <<sseRequest, sseEnded, sseOthers>>

\* The progress callback: generateAllSlides announces the next slide.
AnnounceSlide ==
    /\ ssePc = "generating"
    /\ sseCount < sseRequest.totalSlides
    /\ sseCount' = sseCount + 1
    /\ sseStream' = Append(sseStream, SlideEvent(sseCount + 1, sseRequest.totalSlides))
    /\ UNCHANGED <<ssePc, sseRequest, sseEnded, sseOthers>>

\* generateProposal is rejected (no generator, no configuration).
GenerateProposalThrows ==
    /\ ssePc = "generating"
    /\ Caught
    /\ UNCHANGED sseOthers

\* generateProposal returns: 'creating' is sent and createPresentation
\* called.
GenerateProposalReturns ==
    /\ ssePc = "generating"
    /\ sseCount = sseRequest.totalSlides
    /\ sseStream' = Append(sseStream, ProgressEvent("creating", 90))
    /\ ssePc' = "creating"
    /\ UNCHANGED <<sseRequest, sseCount, sseEnded, sseOthers>>

\* createPresentation returns: the files are cleaned up, 'complete' is sent
\* and the response ended.
CreatePresentationReturns ==
    /\ ssePc = "creating"
    /\ sseStream' = Append(sseStream, CompleteEvent)
    /\ sseEnded' = TRUE
    /\ ssePc' = "closed"
    /\ UNCHANGED <<sseRequest, sseCount, sseOthers>>

\* createPresentation throws (the fallback file cannot be written either).
CreatePresentationThrows ==
    /\ ssePc = "creating"
    /\ Caught
    /\ UNCHANGED sseOthers

(***************************************************************************)
(* Specification SpecSse: streamed generation requests                     *)
(***************************************************************************)
MaxFiles == 2
MaxAnnounced == 3

SseRequests ==
    [hasDiscoveryData : BOOLEAN, files : 0..MaxFiles, totalSlides : 0..MaxAnnounced]

InitSse ==
    /\ sseRequest \in SseRequests
    /\ ssePc = "start"
    /\ sseCount = 0
    /\ sseStream = <<>>
    /\ sseEnded = FALSE
    /\ IdleConc
    /\ IdleEngine
    /\ IdleNorm
    /\ IdlePptx
    /\ IdleGen
    /\ IdleCfg
    /\ IdleRegistry
    /\ IdleSel
    /\ IdleOrch
    /\ IdleWiz

NextSse ==
    \/ Prepare \/ ExtractContent \/ AnnounceSlide \/ GenerateProposalThrows
    \/ GenerateProposalReturns \/ CreatePresentationReturns \/ CreatePresentationThrows

SpecSse == InitSse /\ [][NextSse]_vars

(***************************************************************************)
(* Claims about the event stream (checked under SpecSse)                   *)
(***************************************************************************)
HasProgress(e) == "progress" \in DOMAIN e
IsTerminal(e) == e.event \in {"complete", "error"}

\* C29: in the event stream of a request the progress percentages never
\* decrease, every slide event comes after the 'generating' event and
\* before any 'creating' event, and an ended stream holds one terminal
\* event, 'complete' with progress 100 or 'error', as its last event;
\* nothing but the last event is terminal.
C29_StreamWellFormed ==
    /\ \A i, j \in 1..Len(sseStream) :
          (i < j /\ HasProgress(sseStream[i]) /\ HasProgress(sseStream[j]))
              => sseStream[i].progress <= sseStream[j].progress
    /\ \A k \in 1..Len(sseStream) :
          sseStream[k].event = "slide"
              => /\ \E i \in 1..(k - 1) :
                        sseStream[i] = ProgressEvent("generating", 20)
                 /\ \A i \in 1..(k - 1) : sseStream[i].step # "creating"
                 /\ sseStream[k].progress >= 20
                 /\ sseStream[k].progress <= 90
    /\ \A k \in 1..(Len(sseStream) - 1) : ~IsTerminal(sseStream[k])
    /\ sseEnded <=> (sseStream # <<>> /\ IsTerminal(sseStream[Len(sseStream)]))
    /\ \A k \in 1..Len(sseStream) :
          sseStream[k].event = "complete" => sseStream[k].progress = 100

\* Witness for C29: a request with files and three slides has run to
\* 'complete'; its stream holds the three slide events and 'creating'.
C29_Witness ==
    /\ sseEnded
    /\ sseRequest.files > 0
    /\ sseStream[Len(sseStream)] = CompleteEvent
    /\ Cardinality({k \in 1..Len(sseStream) : sseStream[k].event = "slide"}) = 3
    /\ \E k \in 1..Len(sseStream) : sseStream[k] = ProgressEvent("creating", 90)
    /\ \E k \in 1..Len(sseStream) : sseStream[k] = ProgressEvent("processing", 15)

(***************************************************************************)
(* WizardProvider (WizardContext.tsx)                                      *)
(*                                                                         *)
(* null, undefined and '' are "": discoveryData and proposal are the name  *)
(* of the company and the id of the proposal. Every operation is followed  *)
(* by the render it causes, with the effect that saves the state.          *)
(***************************************************************************)
initialState ==
    [currentStep |-> 1, discoveryData |-> "", selectedTemplateId |-> "",
     uploadedFiles |-> 0, proposal |-> "", downloadUrl |-> "", completedSteps |-> {}]

NoItem == [item |-> FALSE]

\* stateToSave of the saving effect, after JSON.stringify and JSON.parse:
\* the Set has become an array of its members.
stateToSave(state) ==
    [item |-> TRUE,
     currentStep |-> state.currentStep,
     discoveryData |-> state.discoveryData,
     selectedTemplateId |-> state.selectedTemplateId,
     completedSteps |-> state.completedSteps]

\* The dependencies of the saving effect.
saveDependencies(state) ==
    <<state.currentStep, state.discoveryData, state.selectedTemplateId, state.completedSteps>>

\* The loading effect: what setState makes of the saved item.
restored(prev, savedState) ==
    IF savedState = NoItem THEN prev
    ELSE [prev EXCEPT
             !.currentStep = OrElse(savedState.currentStep, 1),
             !.discoveryData = savedState.discoveryData,
             !.selectedTemplateId = savedState.selectedTemplateId,
             !.completedSteps = savedState.completedSteps]

\* canGoToStep
canGoToStep(state, step) ==
    IF step = 1 THEN TRUE
    ELSE IF step = 2 THEN 1 \in state.completedSteps
    ELSE IF step = 3 THEN state.proposal # ""
    ELSE FALSE

\* goToStep
goToStep(state, step) ==
    IF ~canGoToStep(state, step) THEN state
    ELSE IF state.currentStep = 3 /\ step < 3
    THEN [state EXCEPT !.currentStep = step, !.proposal = "", !.downloadUrl = ""]
    ELSE [state EXCEPT !.currentStep = step]

\* updateDiscovery
updateDiscovery(state, data, templateId) ==
    [state EXCEPT !.discoveryData = data,
                  !.selectedTemplateId = templateId,
                  !.completedSteps = @ \cup {1},
                  !.currentStep = 2]

\* updateFiles
updateFiles(state, files) == [state EXCEPT !.uploadedFiles = files]

\* updateProposal
updateProposal(state, prop, url) ==
    [state EXCEPT !.proposal = prop,
                  !.downloadUrl = url,
                  !.completedSteps = @ \cup {2},
                  !.currentStep = 3]

\* completeStep
completeStep(state, step) == [state EXCEPT !.completedSteps = @ \cup {step}]

\* The render after an operation: the saving effect stores the new state.
Rendered ==
    /\ sessionStorage' = stateToSave(wizardState')
    /\ UNCHANGED wizOthers

\* The page is loaded in a session that holds the item: the provider
\* mounts with initialState, the loading effect restores from the item, and
\* the saving effect stores what was restored.
Mount ==
    /\ wizardState' = restored(initialState, sessionStorage)
    /\ Rendered

UpdateDiscovery ==
    \E data \in {"Acme", "Globex"}, templateId \in {"", "healthcare"} :
        /\ wizardState' = updateDiscovery(wizardState, data, templateId)
        /\ Rendered

UpdateFiles == \E files \in 0..MaxFiles :
        /\ wizardState' = updateFiles(wizardState, files)
        /\ Rendered

UpdateProposal ==
    /\ wizardState' = updateProposal(wizardState, "proposal-1", "/api/proposals/download/p.pptx")
    /\ Rendered

GoToStep == \E step \in 0..4 :
        /\ wizardState' = goToStep(wizardState, step)
        /\ Rendered

CompleteStep == \E step \in 1..3 :
        /\ wizardState' = completeStep(wizardState, step)
        /\ Rendered

\* resetWizard: the item is removed, and saved again by the effect when
\* the reset changed one of its dependencies (a saved initial state and no
\* item restore alike).
ResetWizard ==
    /\ wizardState' = initialState
    /\ sessionStorage' = IF saveDependencies(wizardState) = saveDependencies(initialState)
                         THEN NoItem
                         ELSE stateToSave(initialState)
    /\ UNCHANGED wizOthers

(***************************************************************************)
(* Specification SpecWizard: the wizard in one browser session             *)
(***************************************************************************)
\* The first load of the page: nothing is saved, the provider mounts with
\* initialState and the saving effect stores it.
InitWizard ==
    /\ wizardState = initialState
    /\ sessionStorage = stateToSave(initialState)
    /\ IdleSse
    /\ IdleConc
    /\ IdleEngine
    /\ IdleNorm
    /\ IdlePptx
    /\ IdleGen
    /\ IdleCfg
    /\ IdleRegistry
    /\ IdleSel
    /\ IdleOrch

NextWizard ==
    \/ Mount \/ UpdateDiscovery \/ UpdateFiles \/ UpdateProposal \/ GoToStep
    \/ CompleteStep \/ ResetWizard

SpecWizard == InitWizard /\ [][NextWizard]_vars

\* C30: in every state of the wizard, currentStep is 3 only with a proposal
\* present, and 2 only with step 1 among the completed steps.
C30_StepHasItsPrecondition ==
    /\ wizardState.currentStep = 3 => wizardState.proposal # ""
    /\ wizardState.currentStep = 2 => 1 \in wizardState.completedSteps

====
